---- MODULE Spec2Model ----
(***************************************************************************)
(* Verification model of the ERG knowledge-base core of the EusoTrip       *)
(* backend: the extraction parser and the JSON seeder writing the corpus   *)
(* store (backend/app/erg_ingestion.py, erg_module_seed.py, erg_models.py),*)
(* the chunker, the hashing embedding (backend/app/embeddings.py), the     *)
(* fallback search with anchor boosting (backend/app/main.py), the query   *)
(* endpoints (main.py, erg_api.py, services/gamma/hazmat_erg_service.py),  *)
(* the ingest endpoint of the analytics router (ai-sidecar), two           *)
(* concurrent ingestions step by step, and the load lifecycle (main.py,    *)
(* crud.py).                                                               *)
(*                                                                         *)
(* Text is modelled at two grains.  The store machine reads page text and  *)
(* table cells as sequences of whitespace-separated tokens (the regexes of *)
(* the parser only look at whole tokens of the inputs used here).  The     *)
(* chunker and the tokenizer of the embedding are modelled character by    *)
(* character.                                                              *)
(***************************************************************************)
EXTENDS Integers, Sequences, FiniteSets, TLC

VARIABLES
    dialect,           \* database.py:11  engine dialect: "sqlite" | "postgresql"
    build_embeddings,  \* erg_ingestion.py:320  ERG_BUILD_EMBEDDINGS
    db,                \* the corpus store: one field per table
    seq,               \* PostgreSQL's id sequence of erg_source_document
    last,              \* the last call and what it returned
    clean,             \* no call has raised so far
    text, max_chars, overlap, chunks,   \* chunk_text: arguments and result
    etext, dim, vec,                    \* embed_text_local_hash: arguments, result
    memo,                               \* an earlier embedding call, remembered
    rows, k, results,                   \* fallback search: candidates, k, result
    database_url,      \* the environment's DATABASE_URL: "unset" or its scheme
    pgvector,          \* the store has the vector type and its <=> operator
    request, response,                  \* a query endpoint: the call and its answer
    lookup_log,                         \* erg_api.py:21  the rows of ErgLookupLog
    tables, ingest_response,            \* analytics.py: DuckDB tables, last answer
    runs,                               \* ingestion requests in progress, by worker
    loads, load_response,               \* main.py: the Load rows and the last answer
    phase              \* "store" | "in" (arguments drawn) | "out" (result computed)

vars == <<dialect, build_embeddings, db, seq, last, clean,
          text, max_chars, overlap, chunks, etext, dim, vec, memo,
          rows, k, results, database_url, pgvector, request, response, lookup_log,
          tables, ingest_response, runs, loads, load_response, phase>>

storeVars == <<dialect, build_embeddings, db, seq, last, clean>>
chunkVars == <<text, max_chars, overlap, chunks>>
embedVars == <<etext, dim, vec, memo>>
searchVars == <<rows, k, results>>
queryVars == <<database_url, pgvector, request, response, lookup_log>>
analyticsVars == <<tables, ingest_response>>
raceVars == <<runs>>
loadVars == <<loads, load_response>>

(***************************************************************************)
(* Generic sequence helpers.                                               *)
(***************************************************************************)
RECURSIVE Flatten(_)
Flatten(ss) ==
    IF ss = <<>> THEN <<>> ELSE Head(ss) \o Flatten(Tail(ss))

Range(s) == {s[i] : i \in 1..Len(s)}

\* Python dict insertion order: the first occurrence of every element.
RECURSIVE Dedup(_)
Dedup(s) ==
    IF s = <<>> THEN <<>>
    ELSE LET init == Dedup(SubSeq(s, 1, Len(s) - 1))
             x == s[Len(s)]
         IN  IF x \in Range(init) THEN init ELSE Append(init, x)

\* all sequences over S of length at most n
SeqUpTo(S, n) == UNION {[1..m -> S] : m \in 0..n}

(***************************************************************************)
(* Tokens of the extraction input.                                         *)
(***************************************************************************)
\* erg_ingestion.py:27  _UN_RE = ^(\d{4})$
UnTokens == {"1203", "1005"}

\* erg_ingestion.py:28  _GUIDE_RE = ^(\d{3}P?)$ ; the value is int(g[:3])
GuideValue == ("128" :> 128) @@ ("131P" :> 131) @@ ("250" :> 250)

UN_RE(t) == t \in UnTokens
GUIDE_RE(t) == t \in DOMAIN GuideValue

\* erg_ingestion.py:110-117
is_valid_guide(g) ==
    GUIDE_RE(g) /\ GuideValue[g] >= 100 /\ GuideValue[g] <= 199

(***************************************************************************)
(* _extract_un_index_from_table (erg_ingestion.py:57-107).  A table is a   *)
(* sequence of rows, a row a sequence of cells, a cell the sequence of the *)
(* tokens of its stripped text (<<>> is an empty cell).  A triple is       *)
(* <<un, guide, name>> with name a token sequence.                         *)
(***************************************************************************)
\* lines 61-72: adjacent-triplet scan over the cells of one row
TripletScanRow(cells) ==
    Flatten([i \in 1..(Len(cells) - 2) |->
        IF /\ cells[i] # <<>> /\ cells[i+1] # <<>> /\ cells[i+2] # <<>>
           /\ Len(cells[i]) = 1 /\ UN_RE(cells[i][1])
           /\ Len(cells[i+1]) = 1 /\ GUIDE_RE(cells[i+1][1])
        THEN << <<cells[i][1], cells[i+1][1], cells[i+2]>> >>
        ELSE <<>>])

\* line 88: l.split("|"), stripped, empty parts dropped
RECURSIVE SplitPipes(_, _)
SplitPipes(toks, cur) ==
    IF toks = <<>> THEN (IF cur = <<>> THEN <<>> ELSE <<cur>>)
    ELSE IF Head(toks) = "|"
         THEN (IF cur = <<>> THEN <<>> ELSE <<cur>>) \o SplitPipes(Tail(toks), <<>>)
         ELSE SplitPipes(Tail(toks), Append(cur, Head(toks)))

\* lines 89-94: triplet scan over the pipe-separated parts of a line
PipeLineScan(parts) ==
    Flatten([i \in 1..(Len(parts) - 2) |->
        IF /\ Len(parts[i]) = 1 /\ UN_RE(parts[i][1])
           /\ Len(parts[i+1]) = 1 /\ GUIDE_RE(parts[i+1][1])
        THEN << <<parts[i][1], parts[i+1][1], parts[i+2]>> >>
        ELSE <<>>])

HasDigit(t) == t \in UnTokens \/ t \in DOMAIN GuideValue

\* lines 97-101: ^\D*(\d{4})\s+(\d{3}P?)\s+(.+)$ : the first token with a
\* digit is the UN number, the next the guide, the rest of the line the name
PlainLineScan(toks) ==
    LET digitIdx == {i \in 1..Len(toks) : HasDigit(toks[i])}
    IN  IF digitIdx = {} THEN <<>>
        ELSE LET i == CHOOSE x \in digitIdx : \A y \in digitIdx : x <= y
             IN  IF /\ UN_RE(toks[i]) /\ i + 2 <= Len(toks) /\ GUIDE_RE(toks[i+1])
                 THEN << <<toks[i], toks[i+1], SubSeq(toks, i + 2, Len(toks))>> >>
                 ELSE <<>>

\* lines 78-101: one line of text_blob per row, the non-empty cells joined
LineScanRow(cells) ==
    LET l == Flatten(cells)
    IN  IF l = <<>> THEN <<>>
        ELSE IF "|" \in Range(l) THEN PipeLineScan(SplitPipes(l, <<>>))
        ELSE PlainLineScan(l)

extract_un_index_from_table(table) ==
    Dedup(Flatten([r \in 1..Len(table) |-> TripletScanRow(table[r])])
          \o Flatten([r \in 1..Len(table) |-> LineScanRow(table[r])]))

(***************************************************************************)
(* _extract_un_index_from_text (erg_ingestion.py:120-141).  A page text is *)
(* a sequence of lines, a line a sequence of tokens.                       *)
(***************************************************************************)
LineOf(txt) ==
    Flatten([l \in 1..Len(txt) |-> [j \in 1..Len(txt[l]) |-> l]])

EndOfLine(ln, i) ==
    CHOOSE m \in i..Len(ln) :
        /\ ln[m] = ln[i]
        /\ \A n \in i..Len(ln) : ln[n] = ln[i] => n <= m

\* line 127: \b(\d{4})\s+(\d{3}P?)\s+([^\n\r]{2,120}) : "UN GUIDE NAME", the
\* name running to the end of its line; finditer resumes after the match.
RECURSIVE ScanUnGuideName(_, _, _)
ScanUnGuideName(toks, ln, i) ==
    IF i > Len(toks) THEN <<>>
    ELSE IF /\ UN_RE(toks[i]) /\ i + 2 <= Len(toks) /\ GUIDE_RE(toks[i+1])
         THEN LET e == EndOfLine(ln, i + 2)
                  hit == IF is_valid_guide(toks[i+1])
                         THEN << <<toks[i], toks[i+1], SubSeq(toks, i + 2, e)>> >>
                         ELSE <<>>
              IN  hit \o ScanUnGuideName(toks, ln, e + 1)
         ELSE ScanUnGuideName(toks, ln, i + 1)

\* line 134: \b([^\n\r]{2,120}?)\s+(\d{3}P?)\s+(\d{4})\b : "NAME GUIDE UN", the
\* lazy name running from the start of the match to the first GUIDE UN pair.
RECURSIVE ScanNameGuideUn(_, _, _)
ScanNameGuideUn(toks, ln, i) ==
    IF i > Len(toks) THEN <<>>
    ELSE LET ends == {m \in i..(Len(toks) - 2) :
                        ln[m] = ln[i] /\ GUIDE_RE(toks[m+1]) /\ UN_RE(toks[m+2])}
         IN  IF ends = {} THEN ScanNameGuideUn(toks, ln, i + 1)
             ELSE LET m == CHOOSE x \in ends : \A y \in ends : x <= y
                      hit == IF is_valid_guide(toks[m+1])
                             THEN << <<toks[m+2], toks[m+1], SubSeq(toks, i, m)>> >>
                             ELSE <<>>
                  IN  hit \o ScanNameGuideUn(toks, ln, m + 3)

extract_un_index_from_text(page_text) ==
    IF page_text = <<>> THEN <<>>
    ELSE LET toks == Flatten(page_text)
             ln == LineOf(page_text)
         IN  Dedup(ScanUnGuideName(toks, ln, 1) \o ScanNameGuideUn(toks, ln, 1))

(***************************************************************************)
(* _discover_guide_numbers_in_text (erg_ingestion.py:29, 144-153):         *)
(* \bGUIDE\b[\s\S]{0,200}?\b(\d{3}P?)\b finds, after each GUIDE marker, the *)
(* nearest three-digit token; the valid ones are kept, first occurrence    *)
(* first.                                                                  *)
(***************************************************************************)
RECURSIVE ScanGuideHeader(_, _)
ScanGuideHeader(toks, i) ==
    IF i > Len(toks) THEN <<>>
    ELSE IF toks[i] = "GUIDE"
         THEN LET nums == {m \in (i + 1)..Len(toks) : GUIDE_RE(toks[m])}
              IN  IF nums = {} THEN <<>>
                  ELSE LET m == CHOOSE x \in nums : \A y \in nums : x <= y
                       IN  <<toks[m]>> \o ScanGuideHeader(toks, m + 1)
         ELSE ScanGuideHeader(toks, i + 1)

discover_guide_numbers_in_text(page_text) ==
    IF page_text = <<>> THEN <<>>
    ELSE Dedup(SelectSeq(ScanGuideHeader(Flatten(page_text), 1), is_valid_guide))

(***************************************************************************)
(* The corpus store (erg_models.py).  Derived tables are sequences in      *)
(* insertion order, which is also the order of their integer primary keys. *)
(***************************************************************************)
\* bound on erg_source_document.id, so that the id counters stay finite
MaxId == 3

\* None in an integer column (page_number of guide_text chunks and seeded rows)
NoPage == 0

\* a "page" / "table_number" value that int() rejects (None, "", "n/a")
NotAnInt == -1

NoDoc == [id |-> 0, version_tag |-> ""]

EmptyDb ==
    [erg_source_document |-> {},
     erg_page |-> <<>>, erg_table |-> <<>>, erg_un_index |-> <<>>,
     erg_guide_text |-> <<>>, erg_embedding_chunk |-> <<>>,
     erg_guides |-> <<>>, erg_materials |-> <<>>,
     erg_protective_distances |-> <<>>, erg_emergency_contacts |-> <<>>,
     erg_hazard_classes |-> <<>>]

DerivedTables ==
    {"erg_page", "erg_table", "erg_un_index", "erg_guide_text", "erg_embedding_chunk"}

\* a UniqueConstraint over the columns key(_) holds of the rows
Unique(rws, key(_)) ==
    \A i, j \in 1..Len(rws) : key(rws[i]) = key(rws[j]) => i = j

uq_erg_page(r) == <<r.source_document_id, r.page_number>>
uq_erg_table(r) == <<r.source_document_id, r.page_number, r.table_number>>
uq_erg_un_index(r) ==
    <<r.source_document_id, r.un_number, r.guide_number, r.material_name>>
uq_erg_guide_text(r) == <<r.source_document_id, r.guide_number>>
\* content_sha256 is the SHA-256 of content: equal exactly for equal content
uq_erg_embedding_content(r) == <<r.source_document_id, r.content>>

\* the primary key the store gives a new erg_source_document row: SQLite's
\* INTEGER PRIMARY KEY is max(rowid)+1, PostgreSQL's SERIAL draws a sequence
NewId(d) ==
    IF dialect = "sqlite"
    THEN LET ids == {x.id : x \in d.erg_source_document}
         IN  IF ids = {} THEN 1 ELSE (CHOOSE m \in ids : \A y \in ids : y <= m) + 1
    ELSE seq + 1

\* the lookup of line 177 seeing only documents that have pages
ExistingWithPages(d, version_tag) ==
    LET found == {x \in d.erg_source_document :
                     /\ x.version_tag = version_tag
                     /\ \E r \in Range(d.erg_page) : r.source_document_id = x.id}
    IN  IF found = {} THEN NoDoc
        ELSE CHOOSE x \in found : \A y \in found : y.id <= x.id

\* erg_ingestion.py:177-182 : the row of this version_tag with the largest id
Existing(d, version_tag) ==
    LET same == {x \in d.erg_source_document : x.version_tag = version_tag}
    IN  IF same = {} THEN NoDoc
        ELSE CHOOSE x \in same : \A y \in same : y.id <= x.id

\* erg_ingestion.py:184
SkipIngestNever(existing, force) == FALSE
SkipIngest(existing, force) == existing # NoDoc /\ ~force

\* DELETE FROM <table> WHERE source_document_id = :sid
DeleteWhere(rws, sid) ==
    SelectSeq(rws, LAMBDA r : r.source_document_id # sid)

\* erg_ingestion.py:192-196 : the five derived tables of the superseded id
ForceDeleteKeepsGuideText(d, sid) ==
    [d EXCEPT !.erg_embedding_chunk = DeleteWhere(@, sid),
              !.erg_un_index = DeleteWhere(@, sid),
              !.erg_table = DeleteWhere(@, sid),
              !.erg_page = DeleteWhere(@, sid)]
ForceDelete(d, sid) ==
    [d EXCEPT !.erg_embedding_chunk = DeleteWhere(@, sid),
              !.erg_guide_text = DeleteWhere(@, sid),
              !.erg_un_index = DeleteWhere(@, sid),
              !.erg_table = DeleteWhere(@, sid),
              !.erg_page = DeleteWhere(@, sid)]

\* erg_ingestion.py:197-208 with erg_models.py:30 : the superseded row is
\* deleted (existing is NoDoc when there is none), the new row inserted; the
\* insert raises IntegrityError when uq_erg_source_version is violated.
ReplaceSourceDocumentKeepOld(docs, existing, version_tag, id) ==
    [raised |-> FALSE, docs |-> docs \cup {[id |-> id, version_tag |-> version_tag]}]
ReplaceSourceDocument(docs, existing, version_tag, id) ==
    LET kept == docs \ {existing}
    IN  IF \E x \in kept : x.version_tag = version_tag
        THEN [raised |-> TRUE, docs |-> kept]
        ELSE [raised |-> FALSE,
              docs |-> kept \cup {[id |-> id, version_tag |-> version_tag]}]

(***************************************************************************)
(* ingest_from_extraction (erg_ingestion.py:156-399).  The descriptor e is *)
(* summary[0]: title (the version_tag), pages (text_pdfplumber: page, text)*)
(* and tables (page, table_number, data).                                  *)
(***************************************************************************)
\* erg_ingestion.py:234 : the page window of the orange guide section
OrangeFirstPage == 150
OrangeEndPage == 280

\* guide_hits / guide_text_parts (lines 213-214, 238-243): one entry per guide
\* in first-insertion order
AddHit(hits, g, page_num, txt) ==
    IF \E i \in 1..Len(hits) : hits[i].guide_number = g
    THEN [i \in 1..Len(hits) |->
            IF hits[i].guide_number = g
            THEN [hits[i] EXCEPT !.page_nums = Append(@, page_num),
                                 !.parts = Append(@, txt)]
            ELSE hits[i]]
    ELSE Append(hits, [guide_number |-> g, page_nums |-> <<page_num>>, parts |-> <<txt>>])

\* the scan with a page outside the window forgetting the current guide
RECURSIVE GuideScanForgets(_, _, _, _)
GuideScanForgets(pages, i, current_guide, hits) ==
    IF i > Len(pages) THEN hits
    ELSE LET p == pages[i]
             window == OrangeFirstPage <= p.page /\ p.page < OrangeEndPage
             found == discover_guide_numbers_in_text(p.text)
         IN  IF window /\ found # <<>>
             THEN GuideScanForgets(pages, i + 1, found[1],
                                   AddHit(hits, found[1], p.page, p.text))
             ELSE IF window /\ current_guide # ""
             THEN GuideScanForgets(pages, i + 1, current_guide,
                                   AddHit(hits, current_guide, p.page, p.text))
             ELSE GuideScanForgets(pages, i + 1, "", hits)

\* lines 218, 221-243 : the page-ordered scan; current_guide "" is None
RECURSIVE GuideScan(_, _, _, _)
GuideScan(pages, i, current_guide, hits) ==
    IF i > Len(pages) THEN hits
    ELSE LET p == pages[i]
             window == OrangeFirstPage <= p.page /\ p.page < OrangeEndPage
             found == discover_guide_numbers_in_text(p.text)
         IN  IF window /\ found # <<>>
             THEN GuideScan(pages, i + 1, found[1], AddHit(hits, found[1], p.page, p.text))
             ELSE IF window /\ current_guide # ""
             THEN GuideScan(pages, i + 1, current_guide,
                            AddHit(hits, current_guide, p.page, p.text))
             ELSE GuideScan(pages, i + 1, current_guide, hits)

\* lines 245-248 and 274-277 : every triple found, with the page it was found
\* on, in the order the run observes them: all page texts, then all tables
Occurrences(e) ==
    Flatten([i \in 1..Len(e.pages) |->
        LET ts == extract_un_index_from_text(e.pages[i].text)
        IN  [j \in 1..Len(ts) |-> [key |-> ts[j], page_number |-> e.pages[i].page]]])
    \o
    Flatten([i \in 1..Len(e.tables) |->
        LET ts == extract_un_index_from_table(e.tables[i].data)
        IN  [j \in 1..Len(ts) |-> [key |-> ts[j], page_number |-> e.tables[i].page]]])

\* lines 246-248 / 275-277 : if key not in un_index_set: un_index_set[key] = page_num
UnIndexPutLast(acc, o) ==
    IF \E i \in 1..Len(acc) : acc[i].key = o.key
    THEN [i \in 1..Len(acc) |-> IF acc[i].key = o.key THEN o ELSE acc[i]]
    ELSE Append(acc, o)
UnIndexPut(acc, o) ==
    IF \E i \in 1..Len(acc) : acc[i].key = o.key THEN acc ELSE Append(acc, o)

RECURSIVE UnIndexSet(_)
UnIndexSet(occ) ==
    IF occ = <<>> THEN <<>>
    ELSE UnIndexPut(UnIndexSet(SubSeq(occ, 1, Len(occ) - 1)), occ[Len(occ)])

\* sorted(list(set(page_nums)))  (line 309)
RECURSIVE SortedSeq(_)
SortedSeq(S) ==
    IF S = {} THEN <<>>
    ELSE LET m == CHOOSE x \in S : \A y \in S : x <= y
         IN  <<m>> \o SortedSeq(S \ {m})

\* "\n\n".join(texts): the texts separated by one empty line
RECURSIVE JoinBlank(_)
JoinBlank(texts) ==
    IF texts = <<>> THEN <<>>
    ELSE IF Len(texts) = 1 THEN texts[1]
    ELSE texts[1] \o << <<>> >> \o JoinBlank(Tail(texts))

\* text.split("\n\n") with empty parts dropped : the paragraphs of a text
RECURSIVE Paragraphs(_, _)
Paragraphs(lines, cur) ==
    IF lines = <<>> THEN (IF cur = <<>> THEN <<>> ELSE <<cur>>)
    ELSE IF Head(lines) = <<>>
         THEN (IF cur = <<>> THEN <<>> ELSE <<cur>>) \o Paragraphs(Tail(lines), <<>>)
         ELSE Paragraphs(Tail(lines), Append(cur, Head(lines)))

\* lines 347-368 for a content shorter than max_chars = 1800 (every content
\* of the inputs below is): chunk_text returns the one chunk of its
\* paragraphs.  The general chunk_text is modelled character by character
\* further down.
GuideChunks(content) ==
    LET paras == Paragraphs(content, <<>>)
    IN  IF paras = <<>> THEN <<>> ELSE <<JoinBlank(paras)>>

(***************************************************************************)
(* Inputs of the store machine: extraction descriptors and seed files.     *)
(***************************************************************************)
\* erg_module_seed.py:89 (the seeder's default) and erg_ingestion.py:171 (the
\* file name the parser falls back to)
Tags == {"ERG2024_JSON", "ERG2024"}

\* page texts: a yellow-section line "UN GUIDE NAME", and orange guide pages
YellowGasoline == << <<"1203", "128", "GASOLINE">> >>
OrangeGuide128 == << <<"GUIDE", "128">>, <<"FLAMMABLE", "LIQUIDS">> >>
OrangeContinued == << <<"EVACUATE">> >>

\* table data: the gasoline triple twice in one table; an ammonia table
TableGasoline ==
    << << <<"1203">>, <<"128">>, <<"GASOLINE">> >>,
       << <<"1203">>, <<"128">>, <<"GASOLINE">> >> >>
TableAmmonia == << << <<"1005">>, <<"131P">>, <<"AMMONIA">> >> >>

\* summary[0] bodies: a full document, one with tables only (so that its page
\* text gave nothing), and one whose second table has no usable table_number
Bodies ==
    { [pages |-> << [page |-> 20, text |-> YellowGasoline],
                    [page |-> 160, text |-> OrangeGuide128],
                    [page |-> 161, text |-> OrangeContinued] >>,
       tables |-> << [page |-> 25, table_number |-> 1, data |-> TableGasoline] >>],
      [pages |-> <<>>,
       tables |-> << [page |-> 30, table_number |-> 1, data |-> TableAmmonia] >>],
      [pages |-> << [page |-> 20, text |-> YellowGasoline] >>,
       tables |-> << [page |-> 25, table_number |-> 1, data |-> TableGasoline],
                     [page |-> 26, table_number |-> NotAnInt, data |-> TableAmmonia] >>] }

Extractions ==
    {[title |-> t, pages |-> b.pages, tables |-> b.tables] : t \in Tags, b \in Bodies}

\* erg_2024.json contents: a consistent one, and one whose material names a
\* guide the file does not define
SeedJsons ==
    { [guides |-> << [number |-> "128", title |-> "FLAMMABLE"] >>,
       materials |-> << [un |-> "1203", guide |-> "128",
                         name |-> <<"GASOLINE", "BLEND">>] >>,
       protective_distances |-> << [un |-> "1203"] >>,
       emergency_contacts |->
           << [country |-> "usa", name |-> "chemtrec", phone |-> "1-800"] >>,
       hazard_classes |-> << [class |-> 3, name |-> "FLAMMABLE"] >>],
      [guides |-> << [number |-> "131", title |-> "TOXIC"] >>,
       materials |-> << [un |-> "1005", guide |-> "128", name |-> <<"AMMONIA">>] >>,
       protective_distances |-> <<>>,
       emergency_contacts |->
           << [country |-> "canada", name |-> "police", phone |-> "911"] >>,
       hazard_classes |-> <<>>] }

\* the parse of a descriptor (lines 213-248, 274-277): the UN index in
\* first-seen order and the guide accumulator
Parse(e) ==
    [un_index_set |-> UnIndexSet(Occurrences(e)),
     guide_hits |-> GuideScan(e.pages, 1, "", <<>>)]

\* Parse of the store machine's descriptors, computed once
ParsedExtractions == [e \in Extractions |-> Parse(e)]

ParseOf(e) == IF e \in Extractions THEN ParsedExtractions[e] ELSE Parse(e)

\* lines 221-232
page_rows(e, sid) ==
    [i \in 1..Len(e.pages) |->
        [source_document_id |-> sid, page_number |-> e.pages[i].page,
         extracted_text |-> e.pages[i].text]]

\* lines 257-272
table_rows(e, sid) ==
    [i \in 1..Len(e.tables) |->
        [source_document_id |-> sid, page_number |-> e.tables[i].page,
         table_number |-> e.tables[i].table_number, data |-> e.tables[i].data]]

\* lines 283-294
un_rows(e, sid) ==
    LET us == ParseOf(e).un_index_set
    IN  [i \in 1..Len(us) |->
            [source_document_id |-> sid, un_number |-> us[i].key[1],
             guide_number |-> us[i].key[2], material_name |-> us[i].key[3],
             page_number |-> us[i].page_number]]

\* lines 300-313 ; a content without any token is skipped (line 303)
guide_rows(e, sid) ==
    LET hits == ParseOf(e).guide_hits
        kept == SelectSeq(hits, LAMBDA h : Flatten(Flatten(h.parts)) # <<>>)
    IN  [i \in 1..Len(kept) |->
            [source_document_id |-> sid, guide_number |-> kept[i].guide_number,
             page_numbers |-> SortedSeq(Range(kept[i].page_nums)),
             content |-> JoinBlank(kept[i].parts)]]

\* lines 327-344 : one chunk "UN{un} GUIDE{guide} {name}" per UN-index triple
\* (the words UN{un} and GUIDE{guide} are written as two tokens each)
un_chunks(e, sid) ==
    LET us == ParseOf(e).un_index_set
    IN  [i \in 1..Len(us) |->
            [source_document_id |-> sid, chunk_type |-> "un_index",
             page_number |-> us[i].page_number, guide_number |-> us[i].key[2],
             un_or_na |-> us[i].key[1],
             content |-> << <<"UN", us[i].key[1], "GUIDE", us[i].key[2]>> \o us[i].key[3] >>]]

\* lines 367-385 : the chunks of every guide row
guide_chunks(e, sid) ==
    LET gs == guide_rows(e, sid)
    IN  Flatten([i \in 1..Len(gs) |->
            LET cs == GuideChunks(gs[i].content)
            IN  [j \in 1..Len(cs) |->
                    [source_document_id |-> sid, chunk_type |-> "guide_text",
                     page_number |-> NoPage, guide_number |-> gs[i].guide_number,
                     un_or_na |-> "", content |-> cs[j]]]])

embedding_rows(e, sid) ==
    IF build_embeddings THEN un_chunks(e, sid) \o guide_chunks(e, sid) ELSE <<>>

\* int(p.get("page")) (line 222), int(t.get("page")), int(t.get("table_number"))
\* (lines 258-259) raise on a value that is no integer
BadPageNumber(e) == \E i \in 1..Len(e.pages) : e.pages[i].page = NotAnInt
BadTableNumber(e) ==
    \E i \in 1..Len(e.tables) :
        e.tables[i].page = NotAnInt \/ e.tables[i].table_number = NotAnInt

\* range(0, len(rows), n) of lines 279, 296, 315 and 387: n is 500 for tables,
\* 1000 for UN-index rows, 200 for guide-text rows and 500 for embedding
\* chunks.  The descriptors of the model hold a handful of rows, so the four
\* sizes are scaled down, in the same order.
TableBatch == 2
UnBatch == 3
GuideBatch == 1
EmbeddingBatch == 2

\* rows[i : i + n] for i = 0, n, 2n, ...
RECURSIVE Batches(_, _)
Batches(rws, n) ==
    IF Len(rws) <= n THEN (IF rws = <<>> THEN <<>> ELSE <<rws>>)
    ELSE <<SubSeq(rws, 1, n)>> \o Batches(SubSeq(rws, n + 1, Len(rws)), n)

\* the commits of one block: one per batch; the block's loop over the input
\* runs, and raises, before the first of them
BatchStages(table, raises, rws, n) ==
    IF rws = <<>> THEN << [table |-> table, raises |-> raises, rows |-> <<>>] >>
    ELSE [i \in 1..Len(Batches(rws, n)) |->
            [table |-> table, raises |-> raises, rows |-> Batches(rws, n)[i]]]

\* The commits of a run after the source row, in order: the pages in one
\* commit (221-252), then batch by batch the tables (254-281), the UN index
\* (283-298), the guide text (300-317) and the embedding chunks (319-389);
\* raises is a block that fails on a value that is no integer.
Stages(e, sid) ==
    << [table |-> "erg_page", raises |-> BadPageNumber(e), rows |-> page_rows(e, sid)] >>
    \o BatchStages("erg_table", BadTableNumber(e), table_rows(e, sid), TableBatch)
    \o BatchStages("erg_un_index", FALSE, un_rows(e, sid), UnBatch)
    \o BatchStages("erg_guide_text", FALSE, guide_rows(e, sid), GuideBatch)
    \o BatchStages("erg_embedding_chunk", FALSE, embedding_rows(e, sid), EmbeddingBatch)

\* the unique constraint of a table (erg_models.py __table_args__)
UniqueRows(table, rws) ==
    CASE table = "erg_page" -> Unique(rws, uq_erg_page)
      [] table = "erg_table" -> Unique(rws, uq_erg_table)
      [] table = "erg_un_index" -> Unique(rws, uq_erg_un_index)
      [] table = "erg_guide_text" -> Unique(rws, uq_erg_guide_text)
      [] table = "erg_embedding_chunk" -> Unique(rws, uq_erg_embedding_content)

\* Every commit is a point the store keeps when a later statement raises: the
\* blocks run one after the other, each adding its rows and committing
\* (252, 281, 298, 317, 389); the first block that raises ends the run with
\* the store as the commit before it left it.
RECURSIVE CommitStages(_, _, _)
CommitStages(d, stages, i) ==
    IF i > Len(stages) THEN [db |-> d, status |-> "OK"]
    ELSE IF \/ stages[i].raises
            \/ ~UniqueRows(stages[i].table, d[stages[i].table] \o stages[i].rows)
         THEN [db |-> d, status |-> "ERROR"]
         ELSE CommitStages([d EXCEPT ![stages[i].table] = @ \o stages[i].rows],
                           stages, i + 1)

\* lines 159-168 : extraction_summary.json is missing (FileNotFoundError), or
\* its content is not a list or is an empty list (ValueError)
FatalDescriptors ==
    {[summary |-> "missing"], [summary |-> "not_a_list"], [summary |-> "empty_list"]}

\* lines 170-172 : the version_tag of a descriptor is read from summary[0]
VersionTagOf(e) == IF e \in FatalDescriptors THEN "" ELSE e.title

\* a store without any row
AbortDropsStore(d) == EmptyDb

\* the store a run leaves when it raises at lines 162 or 168: the session has
\* not been used yet
AbortBeforeWrites(d) == d

\* The whole call on store d: the fatal descriptors (159-168), the skip
\* (185-189), the force-delete with its commit (191-198), the source row with
\* its commit (200-209), then the blocks of Stages.
ingest_result(d, e, force) ==
    IF e \in FatalDescriptors
    THEN [db |-> AbortBeforeWrites(d), status |-> "FATAL", source_document_id |-> 0,
          existing_id |-> 0, created |-> FALSE]
    ELSE
    LET existing == Existing(d, e.title)
        superseded == IF existing # NoDoc /\ force THEN existing ELSE NoDoc
        d0 == IF superseded # NoDoc THEN ForceDelete(d, superseded.id) ELSE d
        d1 == [d0 EXCEPT !.erg_source_document = @ \ {superseded}]
        sid == NewId(d1)
        ins == ReplaceSourceDocument(d0.erg_source_document, superseded, e.title, sid)
        d2 == [d1 EXCEPT !.erg_source_document = ins.docs]
        out(r, created) ==
            [db |-> r.db, status |-> r.status, source_document_id |-> sid,
             existing_id |-> existing.id, created |-> created]
    IN  IF SkipIngest(existing, force)
        THEN [db |-> d, status |-> "SKIPPED", source_document_id |-> existing.id,
              existing_id |-> existing.id, created |-> FALSE]
        ELSE IF ins.raised THEN out([db |-> d1, status |-> "ERROR"], FALSE)
        ELSE out(CommitStages(d2, Stages(e, sid), 1), TRUE)

ingest_from_extraction(e, force) ==
    /\ phase = "store"
    /\ \E r \in {ingest_result(db, e, force)} :
           /\ r.created => r.source_document_id <= MaxId
           /\ db' = r.db
           /\ seq' = IF r.created /\ dialect = "postgresql" THEN seq + 1 ELSE seq
           /\ last' = [op |-> "ingest", version_tag |-> VersionTagOf(e),
                       force |-> force, status |-> r.status,
                       source_document_id |-> r.source_document_id,
                       existing_id |-> r.existing_id]
           /\ clean' = (clean /\ r.status # "ERROR")
    /\ UNCHANGED <<dialect, build_embeddings, chunkVars, embedVars, searchVars,
                 queryVars, analyticsVars, raceVars, loadVars, phase>>

(***************************************************************************)
(* seed_erg_from_json (erg_module_seed.py:84-371).  The JSON j holds       *)
(* guides (number, title), materials (un, guide, name), protective         *)
(* distances (un), emergency contacts (country, name, phone) and hazard    *)
(* classes (class, name); the guides of the inputs carry a title only.     *)
(***************************************************************************)
\* erg_module_seed.py:26-81 : "GUIDE {num} - {title}" and nothing else for a
\* guide without hazards, safety and response sections
make_guide_text_content(g) == << <<"GUIDE", g.number, "-", g.title>> >>

\* str(name).replace("_", " ").title()  and  str(country).upper()  (344, 346)
TitleCase == ("chemtrec" :> "Chemtrec") @@ ("police" :> "Police")
UpperCase == ("usa" :> "USA") @@ ("canada" :> "CANADA")

\* erg_module_seed.py:348
IsHotline(name) == name \in {"chemtrec", "canutec", "cenacom"}

\* erg_module_seed.py:107-110 : chunks, guide text and UN index of the
\* superseded document; its pages and tables are not deleted
SeedDelete(d, sid) ==
    [d EXCEPT !.erg_embedding_chunk = DeleteWhere(@, sid),
              !.erg_guide_text = DeleteWhere(@, sid),
              !.erg_un_index = DeleteWhere(@, sid)]

\* db.delete(existing_doc); db.commit() (110-111).  The pages relationship
\* (erg_models.py:39) has no delete cascade: the unit of work sets the
\* source_document_id of every page of the document to NULL, which the NOT NULL
\* column (erg_models.py:263) rejects.  PostgreSQL also rejects the delete
\* while an erg_table row references the document (erg_models.py:277); SQLite
\* does not enforce foreign keys (database.py:13-19 sets no PRAGMA).
DeleteDocRaises(d, sid) ==
    \/ \E i \in 1..Len(d.erg_page) : d.erg_page[i].source_document_id = sid
    \/ /\ dialect = "postgresql"
       /\ \E i \in 1..Len(d.erg_table) : d.erg_table[i].source_document_id = sid

\* erg_module_seed.py:113-116
ClearCanonical(d) ==
    [d EXCEPT !.erg_protective_distances = <<>>, !.erg_materials = <<>>,
              !.erg_guides = <<>>, !.erg_emergency_contacts = <<>>]

\* lines 178-199
seed_guides(j) ==
    [i \in 1..Len(j.guides) |->
        [guide_number |-> j.guides[i].number, title |-> j.guides[i].title]]

\* lines 223-230
seed_guide_text(j, sid) ==
    [i \in 1..Len(j.guides) |->
        [source_document_id |-> sid, guide_number |-> j.guides[i].number,
         page_numbers |-> <<>>, content |-> make_guide_text_content(j.guides[i])]]

\* lines 232-249
seed_guide_chunks(j, sid) ==
    [i \in 1..Len(j.guides) |->
        [source_document_id |-> sid, chunk_type |-> "guide_text",
         page_number |-> NoPage, guide_number |-> j.guides[i].number,
         un_or_na |-> "", content |-> make_guide_text_content(j.guides[i])]]

\* lines 259-274
seed_materials(j) ==
    [i \in 1..Len(j.materials) |->
        [un_number |-> j.materials[i].un, name |-> j.materials[i].name,
         guide_number |-> j.materials[i].guide]]

\* lines 276-284
seed_un_index(j, sid) ==
    [i \in 1..Len(j.materials) |->
        [source_document_id |-> sid, un_number |-> j.materials[i].un,
         guide_number |-> j.materials[i].guide,
         material_name |-> j.materials[i].name, page_number |-> NoPage]]

\* lines 286-303
seed_un_chunks(j, sid) ==
    [i \in 1..Len(j.materials) |->
        [source_document_id |-> sid, chunk_type |-> "un_index",
         page_number |-> NoPage, guide_number |-> j.materials[i].guide,
         un_or_na |-> j.materials[i].un,
         content |-> << <<"UN", j.materials[i].un, "GUIDE", j.materials[i].guide>>
                        \o j.materials[i].name >>]]

\* lines 308-333
seed_distances(j) ==
    [i \in 1..Len(j.protective_distances) |->
        [un_number |-> j.protective_distances[i].un]]

\* lines 339-354
seed_contacts(j) ==
    [i \in 1..Len(j.emergency_contacts) |->
        LET c == j.emergency_contacts[i]
        IN  [name |-> TitleCase[c.name], phone |-> c.phone,
             country |-> UpperCase[c.country], is_primary |-> IsHotline(c.name),
             priority |-> IF IsHotline(c.name) THEN 1 ELSE 100]]

\* lines 149-166
seed_hazard_classes(j) ==
    [i \in 1..Len(j.hazard_classes) |->
        [class_number |-> j.hazard_classes[i].class, name |-> j.hazard_classes[i].name]]

\* ForeignKey columns (erg_models.py:116, 141), enforced by PostgreSQL only
FkHolds(rws, col(_), target, tcol(_)) ==
    \/ dialect # "postgresql"
    \/ \A i \in 1..Len(rws) : \E n \in 1..Len(target) : tcol(target[n]) = col(rws[i])

\* The whole call on store d, with build_embeddings=True as main.py:225 passes
\* it.  Commits: the force-delete (111), the canonical tables (117), the
\* source row (126), hazard classes (166), guides with their guide text and
\* chunks (251), materials with UN index and chunks (305), protective
\* distances (335), contacts (356).
seed_result(d, j, force, version_tag) ==
    LET existing == Existing(d, version_tag)
        superseded == IF existing # NoDoc /\ force THEN existing ELSE NoDoc
        d0 == IF superseded # NoDoc
              THEN ClearCanonical(
                     [SeedDelete(d, superseded.id)
                         EXCEPT !.erg_source_document = @ \ {superseded}])
              ELSE d
        sid == NewId(d0)
        d1 == [d0 EXCEPT !.erg_source_document =
                              @ \cup {[id |-> sid, version_tag |-> version_tag]}]
        d2 == IF j.hazard_classes # <<>>
              THEN [d1 EXCEPT !.erg_hazard_classes = seed_hazard_classes(j)]
              ELSE d1
        d3 == [d2 EXCEPT !.erg_guides = @ \o seed_guides(j),
                         !.erg_guide_text = @ \o seed_guide_text(j, sid),
                         !.erg_embedding_chunk = @ \o seed_guide_chunks(j, sid)]
        d4 == [d3 EXCEPT !.erg_materials = @ \o seed_materials(j),
                         !.erg_un_index = @ \o seed_un_index(j, sid),
                         !.erg_embedding_chunk = @ \o seed_un_chunks(j, sid)]
        d5 == [d4 EXCEPT !.erg_protective_distances = @ \o seed_distances(j)]
        d6 == [d5 EXCEPT !.erg_emergency_contacts = @ \o seed_contacts(j)]
        out(dd, st, created) ==
            [db |-> dd, status |-> st, source_document_id |-> sid,
             existing_id |-> existing.id, created |-> created]
    IN  IF existing # NoDoc /\ ~force
        THEN [db |-> d, status |-> "skipped", source_document_id |-> existing.id,
              existing_id |-> existing.id, created |-> FALSE]
        ELSE IF superseded # NoDoc /\ DeleteDocRaises(d, superseded.id)
             THEN [db |-> d, status |-> "ERROR", source_document_id |-> existing.id,
                   existing_id |-> existing.id, created |-> FALSE]
        ELSE IF ~Unique(d2.erg_hazard_classes, LAMBDA r : r.class_number)
             THEN out(d1, "ERROR", TRUE)
        ELSE IF \/ ~Unique(d3.erg_guides, LAMBDA r : r.guide_number)
                \/ ~Unique(d3.erg_guide_text, uq_erg_guide_text)
                \/ ~Unique(d3.erg_embedding_chunk, uq_erg_embedding_content)
             THEN out(d2, "ERROR", TRUE)
        ELSE IF \/ ~Unique(d4.erg_materials, LAMBDA r : r.un_number)
                \/ ~FkHolds(seed_materials(j), LAMBDA r : r.guide_number,
                            d4.erg_guides, LAMBDA r : r.guide_number)
                \/ ~Unique(d4.erg_un_index, uq_erg_un_index)
                \/ ~Unique(d4.erg_embedding_chunk, uq_erg_embedding_content)
             THEN out(d3, "ERROR", TRUE)
        ELSE IF ~FkHolds(seed_distances(j), LAMBDA r : r.un_number,
                         d5.erg_materials, LAMBDA r : r.un_number)
             THEN out(d4, "ERROR", TRUE)
        ELSE out(d6, "seeded", TRUE)

seed_erg_from_json(j, force, version_tag) ==
    /\ phase = "store"
    /\ \E r \in {seed_result(db, j, force, version_tag)} :
           /\ r.created => r.source_document_id <= MaxId
           /\ db' = r.db
           /\ seq' = IF r.created /\ dialect = "postgresql" THEN seq + 1 ELSE seq
           /\ last' = [op |-> "seed", version_tag |-> version_tag,
                       force |-> force, status |-> r.status,
                       source_document_id |-> r.source_document_id,
                       existing_id |-> r.existing_id]
           /\ clean' = (clean /\ r.status # "ERROR")
    /\ UNCHANGED <<dialect, build_embeddings, chunkVars, embedVars, searchVars,
                 queryVars, analyticsVars, raceVars, loadVars, phase>>

(***************************************************************************)
(* The store machine: any sequence of ingestion and seeding calls, one     *)
(* after the other, over a small family of inputs.                         *)
(***************************************************************************)
NoCall ==
    [op |-> "none", version_tag |-> "", force |-> FALSE,
     status |-> "", source_document_id |-> 0, existing_id |-> 0]

\* the variables of the pure functions, at rest
IdleChunk == text = <<>> /\ max_chars = 0 /\ overlap = 0 /\ chunks = <<>>
NoVec == [num |-> <<>>, den2 |-> 0]
NoMemo == [text |-> <<>>, dim |-> 0, vec |-> NoVec]
IdleEmbed == etext = <<>> /\ dim = 0 /\ vec = NoVec /\ memo = NoMemo
IdleSearch == rows = <<>> /\ k = 0 /\ results = <<>>

\* no query has been made, no analytics table exists
NoRequest == [endpoint |-> "none"]
NoResponse == [status |-> 0]
IdleQuery ==
    /\ database_url = "sqlite" /\ pgvector = FALSE
    /\ request = NoRequest /\ response = NoResponse /\ lookup_log = <<>>
NoIngestResponse == [status |-> 0, success |-> FALSE, rows_ingested |-> 0]
IdleAnalytics == tables = <<>> /\ ingest_response = NoIngestResponse
Workers == {1, 2}
IdleRun == [pc |-> "idle", found |-> 0, sid |-> 0, committed |-> 0]
IdleRuns == runs = [w \in Workers |-> IdleRun]
NoLoadResponse == [op |-> "none", load_id |-> 0, new_status |-> "", status |-> 0]
IdleLoads == loads = <<>> /\ load_response = NoLoadResponse

\* main.py:36 create_all on an empty database
Init ==
    /\ dialect \in {"sqlite", "postgresql"}
    /\ build_embeddings \in BOOLEAN
    /\ db = EmptyDb
    /\ seq = 0
    /\ last = NoCall
    /\ clean = TRUE
    /\ phase = "store"
    /\ IdleChunk /\ IdleEmbed /\ IdleSearch /\ IdleQuery /\ IdleAnalytics /\ IdleRuns /\ IdleLoads

Next ==
    \/ \E e \in Extractions, force \in BOOLEAN : ingest_from_extraction(e, force)
    \/ \E j \in SeedJsons, force \in BOOLEAN, t \in Tags : seed_erg_from_json(j, force, t)

Spec == Init /\ [][Next]_vars

(***************************************************************************)
(* Properties of the store machine.                                        *)
(***************************************************************************)
DocIds(d) == {x.id : x \in d.erg_source_document}

\* the rows of a derived table that carry source_document_id sid
RowsOf(d, T, sid) == SelectSeq(d[T], LAMBDA r : r.source_document_id = sid)

\* C1: ingest_from_extraction with force=false for a version_tag that already
\* has a SourceDocument returns SKIPPED with the existing document's id and
\* writes nothing: the store after the call is the store before it.
C1_SkipPerformsNoWrites ==
    [][\A e \in Extractions :
          (Existing(db, e.title) # NoDoc /\ ingest_from_extraction(e, FALSE))
          => /\ last'.status = "SKIPPED"
             /\ last'.source_document_id = Existing(db, e.title).id
             /\ db' = db]_vars

\* a skipped ingestion over a store that holds the pages of the earlier run
C1_Witness ==
    /\ last.op = "ingest" /\ ~last.force /\ last.status = "SKIPPED"
    /\ last.source_document_id = Existing(db, last.version_tag).id
    /\ RowsOf(db, "erg_page", last.source_document_id) # <<>>

\* what C2 promises of a completed forced re-ingestion of e: old is the
\* superseded id, new the id of the run
ForcedReplacement(e) ==
    /\ Existing(db, e.title) # NoDoc
    /\ last'.status = "OK"
    /\ ingest_from_extraction(e, TRUE)

CountsOfFreshIngest(e, new) ==
    LET fresh == ingest_result(EmptyDb, e, TRUE)
    IN  \A T \in DerivedTables :
            Len(RowsOf(db', T, new)) = Len(RowsOf(fresh.db, T, fresh.source_document_id))

\* C2 as stated: a completed forced re-ingestion produces a SourceDocument id
\* different from the superseded one, leaves no derived row carrying the
\* superseded id, and the new generation's row counts are those of a fresh
\* ingestion of the same input into an empty store.
C2_AsStated ==
    [][\A e \in Extractions :
          ForcedReplacement(e)
          => LET old == Existing(db, e.title).id
                 new == last'.source_document_id
             IN  /\ new # old
                 /\ \A T \in DerivedTables : RowsOf(db', T, old) = <<>>
                 /\ CountsOfFreshIngest(e, new)]_vars

\* C2: a completed forced re-ingestion leaves exactly the rows of a fresh
\* ingestion under the run's id; the id is a new one on PostgreSQL, may
\* be the superseded id again on SQLite, and when it is a new one no derived
\* row carries the superseded id.
C2_ForceReplacement ==
    [][\A e \in Extractions :
          ForcedReplacement(e)
          => LET old == Existing(db, e.title).id
                 new == last'.source_document_id
             IN  /\ dialect = "postgresql" => new # old
                 /\ new # old => \A T \in DerivedTables : RowsOf(db', T, old) = <<>>
                 /\ CountsOfFreshIngest(e, new)]_vars

\* a completed forced re-ingestion that wrote guide text under a new id
C2_Witness ==
    /\ last.op = "ingest" /\ last.force /\ last.status = "OK"
    /\ last.existing_id # 0 /\ last.source_document_id # last.existing_id
    /\ RowsOf(db, "erg_guide_text", last.source_document_id) # <<>>

NoOrphans ==
    \A T \in DerivedTables :
        \A i \in 1..Len(db[T]) : db[T][i].source_document_id \in DocIds(db)

\* C3: in every state reached by completed ingestion and seeding calls, every
\* Page, Table, UnIndexEntry, GuideText and EmbeddingChunk row references a
\* SourceDocument that exists in the store.
C3_NoOrphanedRows == clean => NoOrphans

\* C4: at most one SourceDocument exists for any version_tag, in every state
\* reached by sequential ingestion and seeding calls.
C4_OneDocumentPerVersionTag ==
    \A x, y \in db.erg_source_document : x.version_tag = y.version_tag => x = y

\* two generations in the store, the last call a completed forced replacement
C4_Witness ==
    /\ last.force /\ last.status \in {"OK", "seeded"} /\ last.existing_id # 0
    /\ Cardinality(db.erg_source_document) = 2

(***************************************************************************)
(* The parser over every short descriptor: page texts and tables drawn     *)
(* from a few that state the same triples in different places.             *)
(***************************************************************************)
MaxPages == 2
MaxTables == 2

\* "NAME GUIDE UN" for gasoline and "UN GUIDE NAME" for ammonia on one page
YellowMixed == << <<"GASOLINE", "128", "1203">>, <<"1005", "131P", "AMMONIA">> >>

\* gasoline and ammonia in one table
TableMixed ==
    << << <<"1203">>, <<"128">>, <<"GASOLINE">> >>,
       << <<"1005">>, <<"131P">>, <<"AMMONIA">> >> >>

PageChoices ==
    { [page |-> 20, text |-> YellowGasoline], [page |-> 21, text |-> YellowMixed],
      [page |-> 160, text |-> OrangeGuide128] }

\* the second table sits on a page before every page text of PageChoices
TableChoices ==
    { [page |-> 25, table_number |-> 1, data |-> TableGasoline],
      [page |-> 19, table_number |-> 1, data |-> TableMixed] }

ParseInputs ==
    {[title |-> "ERG2024", pages |-> ps, tables |-> ts] :
        ps \in SeqUpTo(PageChoices, MaxPages), ts \in SeqUpTo(TableChoices, MaxTables)}

NextParse == \E e \in ParseInputs : ingest_from_extraction(e, FALSE)

SpecParse == Init /\ [][NextParse]_vars

\* the descriptor of generation sid as the store holds it: erg_page keeps
\* page and text (lines 225-231), erg_table page, table_number and data
\* (lines 262-271), both in input order
StoredInput(d, sid) ==
    LET ps == RowsOf(d, "erg_page", sid)
        ts == RowsOf(d, "erg_table", sid)
    IN  [pages |-> [i \in 1..Len(ps) |->
                      [page |-> ps[i].page_number, text |-> ps[i].extracted_text]],
         tables |-> [i \in 1..Len(ts) |->
                      [page |-> ts[i].page_number, table_number |-> ts[i].table_number,
                       data |-> ts[i].data]]]

\* the UnIndexEntry rows of generation sid for one triple
UnIndexRowsOf(d, sid, key) ==
    SelectSeq(d.erg_un_index,
              LAMBDA r : /\ r.source_document_id = sid
                         /\ <<r.un_number, r.guide_number, r.material_name>> = key)

\* C6: after a completed run, every triple the run found, however often and
\* wherever (page text, one table, several tables), is stored as exactly one
\* UnIndexEntry row, whose page_number is the page of the first occurrence
\* the run observed.
C6_UnIndexDedupFirstPage ==
    (last.op = "ingest" /\ last.status = "OK")
    => LET sid == last.source_document_id
           occ == Occurrences(StoredInput(db, sid))
       IN  \A i \in 1..Len(occ) :
               LET first == CHOOSE j \in 1..i :
                                /\ occ[j].key = occ[i].key
                                /\ \A n \in 1..i : occ[n].key = occ[i].key => j <= n
                   rs == UnIndexRowsOf(db, sid, occ[i].key)
               IN  Len(rs) = 1 /\ rs[1].page_number = occ[first].page_number

\* a completed run that found one triple on two different pages
C6_Witness ==
    /\ last.op = "ingest" /\ last.status = "OK"
    /\ LET occ == Occurrences(StoredInput(db, last.source_document_id))
       IN  \E i, j \in 1..Len(occ) :
               /\ i < j /\ occ[i].key = occ[j].key
               /\ occ[i].page_number # occ[j].page_number

(***************************************************************************)
(* chunk_text (erg_ingestion.py:347-365), character by character.  A text  *)
(* is a sequence of one-character strings.                                 *)
(***************************************************************************)
MaxTextLen == 7
MaxChars == 4
MaxOverlap == 2

Alphabet == {"a", "b", "\n"}
Whitespace == {" ", "\n"}
BlankLine == <<"\n", "\n">>

\* str.strip()
RECURSIVE LStrip(_)
LStrip(s) ==
    IF s # <<>> /\ Head(s) \in Whitespace THEN LStrip(Tail(s)) ELSE s

RECURSIVE RStrip(_)
RStrip(s) ==
    IF s # <<>> /\ s[Len(s)] \in Whitespace THEN RStrip(SubSeq(s, 1, Len(s) - 1)) ELSE s

Strip(s) == RStrip(LStrip(s))

\* text.split("\n\n") : cut at every "\n\n", scanning from the left
RECURSIVE SplitBlank(_, _)
SplitBlank(s, cur) ==
    IF s = <<>> THEN <<cur>>
    ELSE IF Len(s) >= 2 /\ SubSeq(s, 1, 2) = BlankLine
         THEN <<cur>> \o SplitBlank(SubSeq(s, 3, Len(s)), <<>>)
         ELSE SplitBlank(Tail(s), Append(cur, Head(s)))

\* line 350 : parts = [p.strip() for p in text.split("\n\n") if p.strip()]
Parts(txt) ==
    LET pieces == SplitBlank(txt, <<>>)
    IN  SelectSeq([i \in 1..Len(pieces) |-> Strip(pieces[i])], LAMBDA q : q # <<>>)

\* line 361 : tail = buf[-overlap:] if overlap > 0 and len(buf) > overlap else ""
OverlapTail(buf, ov) ==
    IF ov > 0 /\ Len(buf) > ov THEN SubSeq(buf, Len(buf) - ov + 1, Len(buf)) ELSE <<>>

\* lines 363-364 : if buf: chunks.append(buf)
FlushNever(cs, buf) == cs
Flush(cs, buf) == IF buf # <<>> THEN Append(cs, buf) ELSE cs

\* lines 353-362 : the loop over the paragraphs from the i-th on
RECURSIVE ChunkLoop(_, _, _, _, _, _)
ChunkLoop(parts, i, cs, buf, mx, ov) ==
    IF i > Len(parts) THEN Flush(cs, buf)
    ELSE LET q == parts[i]
         IN  IF buf = <<>> THEN ChunkLoop(parts, i + 1, cs, q, mx, ov)
             ELSE IF Len(buf) + 2 + Len(q) <= mx
             THEN ChunkLoop(parts, i + 1, cs, buf \o BlankLine \o q, mx, ov)
             ELSE ChunkLoop(parts, i + 1, Append(cs, buf),
                            Strip(OverlapTail(buf, ov) \o BlankLine \o q), mx, ov)

chunk_text(txt, mx, ov) ==
    IF txt = <<>> THEN <<>> ELSE ChunkLoop(Parts(txt), 1, <<>>, <<>>, mx, ov)

IdleStore ==
    /\ dialect = "sqlite" /\ build_embeddings = TRUE /\ db = EmptyDb /\ seq = 0
    /\ last = NoCall /\ clean = TRUE

InitChunk ==
    /\ text \in SeqUpTo(Alphabet, MaxTextLen)
    /\ max_chars \in 1..MaxChars
    /\ overlap \in 0..MaxOverlap
    /\ chunks = <<>>
    /\ phase = "in"
    /\ IdleStore /\ IdleEmbed /\ IdleSearch /\ IdleQuery /\ IdleAnalytics /\ IdleRuns /\ IdleLoads

ChunkText ==
    /\ phase = "in"
    /\ chunks' = chunk_text(text, max_chars, overlap)
    /\ phase' = "out"
    /\ UNCHANGED <<storeVars, text, max_chars, overlap, embedVars, searchVars,
                 queryVars, analyticsVars, raceVars, loadVars>>

SpecChunk == InitChunk /\ [][ChunkText]_vars

\* what lines 361-362 put in front of the paragraph that opens the chunk after
\* prev: the tail of prev without its leading whitespace and the separator,
\* or nothing when prev is not longer than overlap (or overlap is 0)
OverlapPrefix(prev, ov) ==
    LET t == LStrip(OverlapTail(prev, ov))
    IN  IF t = <<>> THEN <<>> ELSE t \o BlankLine

StartsWith(s, pre) == Len(s) >= Len(pre) /\ SubSeq(s, 1, Len(pre)) = pre

\* chunk i of cs without its overlap prefix
WithoutOverlap(cs, i, ov) ==
    IF i = 1 THEN cs[1]
    ELSE SubSeq(cs[i], Len(OverlapPrefix(cs[i-1], ov)) + 1, Len(cs[i]))

\* C7: chunk_text drops no information: every chunk after the first starts
\* with its overlap prefix, the chunks without these prefixes hold, in order,
\* exactly the paragraphs of the text, and every paragraph is a whole
\* paragraph of some chunk.
C7_ChunksReconstructParagraphs ==
    phase = "out"
    => /\ \A i \in 2..Len(chunks) :
              StartsWith(chunks[i], OverlapPrefix(chunks[i-1], overlap))
       /\ Flatten([i \in 1..Len(chunks) |-> Parts(WithoutOverlap(chunks, i, overlap))])
            = Parts(text)
       /\ \A j \in 1..Len(Parts(text)) :
              \E i \in 1..Len(chunks) : Parts(text)[j] \in Range(Parts(chunks[i]))

\* three paragraphs cut into several chunks, the second with an overlap prefix
C7_Witness ==
    /\ phase = "out" /\ Len(Parts(text)) >= 3 /\ Len(chunks) >= 2
    /\ OverlapPrefix(chunks[1], overlap) # <<>>

\* C8: no emitted chunk is longer than max_chars unless a single paragraph
\* of the text is by itself longer than max_chars.
C8_ChunkWithinMaxChars ==
    phase = "out"
    => \A i \in 1..Len(chunks) :
           \/ Len(chunks[i]) <= max_chars
           \/ \E j \in 1..Len(Parts(text)) : Len(Parts(text)[j]) > max_chars

(***************************************************************************)
(* The hashing embedding (embeddings.py:11-42), character by character.    *)
(* A vector of floats v[i] = num[i] / sqrt(den2) is the record of its      *)
(* integer numerators and the square of the common denominator.            *)
(***************************************************************************)
MaxEmbedLen == 4
MaxDim == 3

\* letters, an upper-case letter, whitespace and punctuation
EmbedAlphabet == {"a", "b", "A", " ", "-"}

\* text.lower() (line 14)
Lower(c) == IF c = "A" THEN "a" ELSE c

\* re.sub(r"[^a-z0-9\s]+", " ", text) (line 15)
Sanitize(c) == IF c \in {"a", "b"} \cup Whitespace THEN c ELSE " "

\* text.split() (line 16) : the maximal runs without whitespace
RECURSIVE SplitWhitespace(_, _)
SplitWhitespace(s, cur) ==
    IF s = <<>> THEN (IF cur = <<>> THEN <<>> ELSE <<cur>>)
    ELSE IF Head(s) \in Whitespace
         THEN (IF cur = <<>> THEN <<>> ELSE <<cur>>) \o SplitWhitespace(Tail(s), <<>>)
         ELSE SplitWhitespace(Tail(s), Append(cur, Head(s)))

\* embeddings.py:11-16
tokenize(txt) ==
    IF txt = <<>> THEN <<>>
    ELSE SplitWhitespace([i \in 1..Len(txt) |-> Sanitize(Lower(txt[i]))], <<>>)

\* hashlib.sha256(tok).digest() (line 34) of every token over a, b of up to
\* five letters: bytes 0-1 and 2-3 as big-endian integers, bit 0 of byte 4
Sha256 ==
    (<<"a">> :> [hi |-> 51863, lo |-> 33042, odd |-> 0])
    @@ (<<"b">> :> [hi |-> 15907, lo |-> 59414, odd |-> 0])
    @@ (<<"a", "a">> :> [hi |-> 38427, lo |-> 28115, odd |-> 1])
    @@ (<<"a", "b">> :> [hi |-> 64398, lo |-> 8444, odd |-> 0])
    @@ (<<"b", "a">> :> [hi |-> 38671, lo |-> 20892, odd |-> 0])
    @@ (<<"b", "b">> :> [hi |-> 15204, lo |-> 56213, odd |-> 1])
    @@ (<<"a", "a", "a">> :> [hi |-> 38964, lo |-> 34669, odd |-> 1])
    @@ (<<"a", "a", "b">> :> [hi |-> 14454, lo |-> 3755, odd |-> 0])
    @@ (<<"a", "b", "a">> :> [hi |-> 57636, lo |-> 44492, odd |-> 1])
    @@ (<<"a", "b", "b">> :> [hi |-> 29022, lo |-> 57227, odd |-> 0])
    @@ (<<"b", "a", "a">> :> [hi |-> 26206, lo |-> 56038, odd |-> 1])
    @@ (<<"b", "a", "b">> :> [hi |-> 60637, lo |-> 38720, odd |-> 0])
    @@ (<<"b", "b", "a">> :> [hi |-> 12878, lo |-> 36183, odd |-> 0])
    @@ (<<"b", "b", "b">> :> [hi |-> 15988, lo |-> 19357, odd |-> 1])
    @@ (<<"a", "a", "a", "a">> :> [hi |-> 25022, lo |-> 21928, odd |-> 0])
    @@ (<<"a", "a", "a", "b">> :> [hi |-> 34281, lo |-> 3967, odd |-> 0])
    @@ (<<"a", "a", "b", "a">> :> [hi |-> 26946, lo |-> 15205, odd |-> 0])
    @@ (<<"a", "a", "b", "b">> :> [hi |-> 18539, lo |-> 13349, odd |-> 1])
    @@ (<<"a", "b", "a", "a">> :> [hi |-> 61484, lo |-> 46972, odd |-> 1])
    @@ (<<"a", "b", "a", "b">> :> [hi |-> 42599, lo |-> 10278, odd |-> 1])
    @@ (<<"a", "b", "b", "a">> :> [hi |-> 57889, lo |-> 5557, odd |-> 1])
    @@ (<<"a", "b", "b", "b">> :> [hi |-> 465, lo |-> 25253, odd |-> 1])
    @@ (<<"b", "a", "a", "a">> :> [hi |-> 42342, lo |-> 41615, odd |-> 1])
    @@ (<<"b", "a", "a", "b">> :> [hi |-> 21623, lo |-> 54041, odd |-> 0])
    @@ (<<"b", "a", "b", "a">> :> [hi |-> 59226, lo |-> 27860, odd |-> 0])
    @@ (<<"b", "a", "b", "b">> :> [hi |-> 14632, lo |-> 4017, odd |-> 0])
    @@ (<<"b", "b", "a", "a">> :> [hi |-> 24592, lo |-> 47383, odd |-> 0])
    @@ (<<"b", "b", "a", "b">> :> [hi |-> 11213, lo |-> 3041, odd |-> 1])
    @@ (<<"b", "b", "b", "a">> :> [hi |-> 37499, lo |-> 31408, odd |-> 1])
    @@ (<<"b", "b", "b", "b">> :> [hi |-> 33228, lo |-> 23319, odd |-> 1])
    @@ (<<"a", "a", "a", "a", "a">> :> [hi |-> 60822, lo |-> 36484, odd |-> 1])
    @@ (<<"a", "a", "a", "a", "b">> :> [hi |-> 24305, lo |-> 45313, odd |-> 0])
    @@ (<<"a", "a", "a", "b", "a">> :> [hi |-> 14457, lo |-> 2591, odd |-> 0])
    @@ (<<"a", "a", "a", "b", "b">> :> [hi |-> 62277, lo |-> 29956, odd |-> 1])
    @@ (<<"a", "a", "b", "a", "a">> :> [hi |-> 23021, lo |-> 53920, odd |-> 0])
    @@ (<<"a", "a", "b", "a", "b">> :> [hi |-> 7449, lo |-> 20230, odd |-> 1])
    @@ (<<"a", "a", "b", "b", "a">> :> [hi |-> 24380, lo |-> 54676, odd |-> 0])
    @@ (<<"a", "a", "b", "b", "b">> :> [hi |-> 28326, lo |-> 4443, odd |-> 1])
    @@ (<<"a", "b", "a", "a", "a">> :> [hi |-> 45591, lo |-> 23540, odd |-> 1])
    @@ (<<"a", "b", "a", "a", "b">> :> [hi |-> 20516, lo |-> 24307, odd |-> 0])
    @@ (<<"a", "b", "a", "b", "a">> :> [hi |-> 63928, lo |-> 55422, odd |-> 0])
    @@ (<<"a", "b", "a", "b", "b">> :> [hi |-> 35004, lo |-> 37985, odd |-> 0])
    @@ (<<"a", "b", "b", "a", "a">> :> [hi |-> 59658, lo |-> 21835, odd |-> 1])
    @@ (<<"a", "b", "b", "a", "b">> :> [hi |-> 34010, lo |-> 49090, odd |-> 1])
    @@ (<<"a", "b", "b", "b", "a">> :> [hi |-> 18719, lo |-> 47150, odd |-> 1])
    @@ (<<"a", "b", "b", "b", "b">> :> [hi |-> 34477, lo |-> 10972, odd |-> 0])
    @@ (<<"b", "a", "a", "a", "a">> :> [hi |-> 56295, lo |-> 34489, odd |-> 1])
    @@ (<<"b", "a", "a", "a", "b">> :> [hi |-> 10994, lo |-> 56639, odd |-> 1])
    @@ (<<"b", "a", "a", "b", "a">> :> [hi |-> 36292, lo |-> 13406, odd |-> 1])
    @@ (<<"b", "a", "a", "b", "b">> :> [hi |-> 21259, lo |-> 25519, odd |-> 0])
    @@ (<<"b", "a", "b", "a", "a">> :> [hi |-> 14210, lo |-> 50765, odd |-> 0])
    @@ (<<"b", "a", "b", "a", "b">> :> [hi |-> 12001, lo |-> 33378, odd |-> 1])
    @@ (<<"b", "a", "b", "b", "a">> :> [hi |-> 62222, lo |-> 11649, odd |-> 0])
    @@ (<<"b", "a", "b", "b", "b">> :> [hi |-> 48137, lo |-> 49058, odd |-> 0])
    @@ (<<"b", "b", "a", "a", "a">> :> [hi |-> 62030, lo |-> 9019, odd |-> 1])
    @@ (<<"b", "b", "a", "a", "b">> :> [hi |-> 28448, lo |-> 27836, odd |-> 1])
    @@ (<<"b", "b", "a", "b", "a">> :> [hi |-> 30556, lo |-> 43767, odd |-> 1])
    @@ (<<"b", "b", "a", "b", "b">> :> [hi |-> 48295, lo |-> 25286, odd |-> 1])
    @@ (<<"b", "b", "b", "a", "a">> :> [hi |-> 9484, lo |-> 10935, odd |-> 0])
    @@ (<<"b", "b", "b", "a", "b">> :> [hi |-> 36012, lo |-> 9311, odd |-> 1])
    @@ (<<"b", "b", "b", "b", "a">> :> [hi |-> 25307, lo |-> 21495, odd |-> 0])
    @@ (<<"b", "b", "b", "b", "b">> :> [hi |-> 24196, lo |-> 27748, odd |-> 0])

\* line 35 : int.from_bytes(h[:4], "big") % dim, the 32-bit word taken in
\* two 16-bit halves; buckets are numbered from 1 here
Bucket(tok, d) ==
    (((Sha256[tok].hi % d) * (65536 % d) + (Sha256[tok].lo % d)) % d) + 1

\* line 36 : sign = -1.0 if (h[4] & 1) else 1.0
Sign(tok) == IF Sha256[tok].odd = 1 THEN -1 ELSE 1

\* line 28 : vec = [0.0] * dim
StaleVector(d) == IF Len(vec.num) = d THEN vec.num ELSE [i \in 1..d |-> 0]
ZeroVector(d) == [i \in 1..d |-> 0]

\* lines 33-37 : vec[idx] += sign for every token in turn
RECURSIVE Accumulate(_, _, _)
Accumulate(tokens, counts, d) ==
    IF tokens = <<>> THEN counts
    ELSE Accumulate(Tail(tokens),
                    [counts EXCEPT ![Bucket(Head(tokens), d)] = @ + Sign(Head(tokens))],
                    d)

RECURSIVE SumSquares(_)
SumSquares(v) == IF v = <<>> THEN 0 ELSE Head(v) * Head(v) + SumSquares(Tail(v))

\* lines 39-41 : norm = sqrt(sum(v * v)); if norm > 0: vec = [v / norm ...]
NormalizeSkipped(counts) == [num |-> counts, den2 |-> 1]
Normalize(counts) ==
    LET n2 == SumSquares(counts)
    IN  IF n2 > 0 THEN [num |-> counts, den2 |-> n2] ELSE [num |-> counts, den2 |-> 1]

\* embeddings.py:19-42
embed_text_local_hash(txt, d) ==
    LET tokens == tokenize(txt)
    IN  IF tokens = <<>> THEN [num |-> ZeroVector(d), den2 |-> 1]
        ELSE Normalize(Accumulate(tokens, ZeroVector(d), d))

InitEmbed ==
    /\ etext \in SeqUpTo(EmbedAlphabet, MaxEmbedLen)
    /\ dim \in 1..MaxDim
    /\ vec = NoVec
    /\ memo = NoMemo
    /\ phase = "in"
    /\ IdleStore /\ IdleChunk /\ IdleSearch /\ IdleQuery /\ IdleAnalytics /\ IdleRuns /\ IdleLoads

Embed ==
    /\ phase = "in"
    /\ vec' = embed_text_local_hash(etext, dim)
    /\ phase' = "out"
    /\ UNCHANGED <<storeVars, chunkVars, etext, dim, memo, searchVars,
                 queryVars, analyticsVars, raceVars, loadVars>>

SpecEmbed == InitEmbed /\ [][Embed]_vars

\* the squared L2 norm of v is SumSquares(v.num) / v.den2
IsUnit(v) == SumSquares(v.num) = v.den2
IsZero(v) == \A i \in 1..Len(v.num) : v.num[i] = 0

\* the signed count of bucket i: the signs of the tokens that fall in it
RECURSIVE SignedCount(_, _, _)
SignedCount(tokens, d, i) ==
    IF tokens = <<>> THEN 0
    ELSE (IF Bucket(Head(tokens), d) = i THEN Sign(Head(tokens)) ELSE 0)
         + SignedCount(Tail(tokens), d, i)

Cancelled(tokens, d) == \A i \in 1..d : SignedCount(tokens, d, i) = 0

\* C9 as stated: a text with at least one token gives a vector of unit L2
\* norm for every dim >= 1; a token-free text gives the all-zero vector of
\* length dim.
C9_AsStated ==
    phase = "out"
    => /\ Len(vec.num) = dim
       /\ tokenize(etext) # <<>> => IsUnit(vec)
       /\ tokenize(etext) = <<>> => IsZero(vec)

\* C9: a text with at least one token gives a vector of unit L2 norm unless
\* the signs of its tokens cancel in every bucket; a text whose signs cancel
\* and a token-free text give the all-zero vector of length dim.
C9_UnitNormUnlessCancelled ==
    phase = "out"
    => LET tokens == tokenize(etext)
       IN  /\ Len(vec.num) = dim
           /\ (tokens # <<>> /\ ~Cancelled(tokens, dim)) => IsUnit(vec) /\ ~IsZero(vec)
           /\ (tokens = <<>> \/ Cancelled(tokens, dim)) => IsZero(vec)

\* two tokens in different buckets: the counts are divided by sqrt(2)
C9_Witness ==
    /\ phase = "out" /\ Len(tokenize(etext)) >= 2
    /\ IsUnit(vec) /\ vec.den2 > 1

(***************************************************************************)
(* Calls of the embedding one after the other, one earlier call remembered.*)
(***************************************************************************)
MaxCallLen == 3

CallTexts == SeqUpTo({"a", " "}, MaxCallLen)

InitCalls ==
    /\ etext = <<>> /\ dim = 0 /\ vec = NoVec /\ memo = NoMemo
    /\ phase = "calls"
    /\ IdleStore /\ IdleChunk /\ IdleSearch /\ IdleQuery /\ IdleAnalytics /\ IdleRuns /\ IdleLoads

EmbedCall(t, d) ==
    /\ phase = "calls"
    /\ etext' = t
    /\ dim' = d
    /\ vec' = embed_text_local_hash(t, d)
    /\ UNCHANGED <<storeVars, chunkVars, memo, searchVars,
                 queryVars, analyticsVars, raceVars, loadVars, phase>>

Remember ==
    /\ phase = "calls" /\ vec # NoVec /\ memo = NoMemo
    /\ memo' = [text |-> etext, dim |-> dim, vec |-> vec]
    /\ UNCHANGED <<storeVars, chunkVars, etext, dim, vec, searchVars,
                 queryVars, analyticsVars, raceVars, loadVars, phase>>

NextCalls ==
    \/ \E t \in CallTexts, d \in 1..MaxDim : EmbedCall(t, d)
    \/ Remember

SpecEmbedCalls == InitCalls /\ [][NextCalls]_vars

\* the vectors u and v have the same components
SameVector(u, v) ==
    /\ Len(u.num) = Len(v.num)
    /\ \A i \in 1..Len(u.num) :
          /\ (u.num[i] > 0) = (v.num[i] > 0)
          /\ (u.num[i] < 0) = (v.num[i] < 0)
          /\ u.num[i] * u.num[i] * v.den2 = v.num[i] * v.num[i] * u.den2

MaxCorpus == 11
MaxK == 3

\* main.py:347 : un_index_scored[:5] ... if s >= 0.15
TopUnIndex == 5
AnchorThreshold == 15
\* main.py:352, 354
GuideTextBoost == 60
UnIndexBoost == 20

Candidate(type, guide, un, page, content, score) ==
    [chunk_type |-> type, guide_number |-> guide, un_or_na |-> un,
     page_number |-> page, content |-> content, score |-> score]

\* the chunks of a corpus as one query scores them: six UN-index chunks of
\* five guides, guide text of three of these guides (the chunk of guide 128
\* twice, as two chunks of one guide with the same content are stored) and of
\* a guide no UN number of the corpus names, and more guide text of guide 128
Corpus ==
    << Candidate("un_index", "128", "1203", 20, "UN1203 GUIDE128 GASOLINE", 40),
       Candidate("un_index", "128", "1993", 21, "UN1993 GUIDE128 FUEL OIL", 30),
       Candidate("un_index", "131", "1005", 22, "UN1005 GUIDE131 AMMONIA", 25),
       Candidate("un_index", "124", "1017", 23, "UN1017 GUIDE124 CHLORINE", 22),
       Candidate("un_index", "127", "1170", 24, "UN1170 GUIDE127 ETHANOL", 10),
       Candidate("un_index", "130", "1090", 25, "UN1090 GUIDE130 ACETONE", 16),
       Candidate("guide_text", "128", "", NoPage, "GUIDE 128 FLAMMABLE LIQUIDS", 5),
       Candidate("guide_text", "128", "", NoPage, "GUIDE 128 FLAMMABLE LIQUIDS", 5),
       Candidate("guide_text", "131", "", NoPage, "GUIDE 131 FLAMMABLE TOXIC", 1),
       Candidate("guide_text", "130", "", NoPage, "GUIDE 130 FLAMMABLE LIQUIDS", 8),
       Candidate("guide_text", "111", "", NoPage, "GUIDE 111 MIXED LOAD", 90),
       Candidate("guide_text", "128", "", NoPage, "EVACUATE", 3) >>

\* the rows the SELECT returns: any selection of the first MaxCorpus chunks,
\* in table order
Selections ==
    {[j \in 1..Cardinality(S) |-> Corpus[SortedSeq(S)[j]]] : S \in SUBSET (1..MaxCorpus)}

\* list.sort(key=score, reverse=True) : descending, equal scores keep their order
RECURSIVE SortByScore(_)
SortByScore(sc) ==
    IF sc = <<>> THEN <<>>
    ELSE LET best == CHOOSE i \in 1..Len(sc) :
                         /\ \A j \in 1..Len(sc) : sc[j].score <= sc[i].score
                         /\ \A j \in 1..(i - 1) : sc[j].score < sc[i].score
         IN  <<sc[best]>>
             \o SortByScore(SubSeq(sc, 1, best - 1) \o SubSeq(sc, best + 1, Len(sc)))

\* main.py:345-347
AnchorGuides(scored) ==
    LET un_index_scored ==
            SortByScore(SelectSeq(scored, LAMBDA r : r.chunk_type = "un_index"
                                                     /\ r.guide_number # ""))
        top == SubSeq(un_index_scored, 1,
                      IF Len(un_index_scored) < TopUnIndex
                      THEN Len(un_index_scored) ELSE TopUnIndex)
    IN  {top[i].guide_number : i \in {j \in 1..Len(top) : top[j].score >= AnchorThreshold}}

\* a boost that raises the guide_text chunks only
BoostGuideTextOnly(scored, anchor_guides) ==
    [i \in 1..Len(scored) |->
        IF scored[i].chunk_type = "guide_text" /\ scored[i].guide_number \in anchor_guides
        THEN [scored[i] EXCEPT !.score = @ + GuideTextBoost]
        ELSE scored[i]]

\* main.py:349-358
Boost(scored, anchor_guides) ==
    [i \in 1..Len(scored) |->
        IF scored[i].chunk_type = "guide_text" /\ scored[i].guide_number \in anchor_guides
        THEN [scored[i] EXCEPT !.score = @ + GuideTextBoost]
        ELSE IF scored[i].chunk_type = "un_index" /\ scored[i].guide_number \in anchor_guides
        THEN [scored[i] EXCEPT !.score = @ + UnIndexBoost]
        ELSE scored[i]]

\* main.py:375, 382 : the identity results are deduplicated by
Key(r) == <<r.chunk_type, r.guide_number, r.un_or_na, r.page_number, r.content>>

Keys(res) == {Key(res[i]) : i \in 1..Len(res)}

\* main.py:366-379 : for g in anchor_guides, in the order the set is iterated,
\* the first guide_text entry of g in the ranking
AnchorFirstNone(order, scored, res) == res
RECURSIVE AnchorFirst(_, _, _)
AnchorFirst(order, scored, res) ==
    IF order = <<>> THEN res
    ELSE LET own == SelectSeq(scored, LAMBDA r : r.chunk_type = "guide_text"
                                                 /\ r.guide_number = Head(order))
         IN  IF own # <<>> /\ Key(own[1]) \notin Keys(res)
             THEN AnchorFirst(Tail(order), scored, Append(res, own[1]))
             ELSE AnchorFirst(Tail(order), scored, res)

\* the fill step without the test of the identities seen
RECURSIVE FillNoSeen(_, _, _, _)
FillNoSeen(scored, i, res, kk) ==
    IF i > Len(scored) THEN res
    ELSE IF Len(res) + 1 >= kk THEN Append(res, scored[i])
    ELSE FillNoSeen(scored, i + 1, Append(res, scored[i]), kk)

\* main.py:381-388 : the ranking from entry i on; the length is tested only
\* after an entry was appended
RECURSIVE Fill(_, _, _, _)
Fill(scored, i, res, kk) ==
    IF i > Len(scored) THEN res
    ELSE IF Key(scored[i]) \in Keys(res) THEN Fill(scored, i + 1, res, kk)
    ELSE IF Len(res) + 1 >= kk THEN Append(res, scored[i])
    ELSE Fill(scored, i + 1, Append(res, scored[i]), kk)

\* main.py:390 : results[:k] with Python's slice for k < 0
Slice(res, kk) ==
    LET n == IF kk >= 0 THEN (IF kk < Len(res) THEN kk ELSE Len(res))
             ELSE (IF Len(res) + kk > 0 THEN Len(res) + kk ELSE 0)
    IN  SubSeq(res, 1, n)

\* all orders in which a set can be iterated
Orders(S) ==
    {o \in [1..Cardinality(S) -> S] : \A i, j \in 1..Cardinality(S) : o[i] = o[j] => i = j}

fallback_search(scored, kk, order) ==
    LET anchor_guides == AnchorGuides(scored)
        ranked == SortByScore(IF anchor_guides # {} THEN Boost(scored, anchor_guides)
                              ELSE scored)
    IN  Slice(Fill(ranked, 1, AnchorFirst(order, ranked, <<>>), kk), kk)

InitSearch ==
    /\ rows \in Selections
    /\ k \in -1..MaxK
    /\ results = <<>>
    /\ phase = "in"
    /\ IdleStore /\ IdleChunk /\ IdleEmbed /\ IdleQuery /\ IdleAnalytics /\ IdleRuns /\ IdleLoads

Search ==
    /\ phase = "in"
    /\ \E order \in Orders(AnchorGuides(rows)) :
           results' = fallback_search(rows, k, order)
    /\ phase' = "out"
    /\ UNCHANGED <<storeVars, chunkVars, embedVars, rows, k, queryVars, analyticsVars, raceVars, loadVars>>

SpecSearch == InitSearch /\ [][Search]_vars

\* the anchor guides that have a guide_text chunk among the candidates
AnchorsWithGuideText ==
    {g \in AnchorGuides(rows) :
        \E i \in 1..Len(rows) : rows[i].chunk_type = "guide_text" /\ rows[i].guide_number = g}

GuideTextReturned(g) ==
    \E i \in 1..Len(results) :
        results[i].chunk_type = "guide_text" /\ results[i].guide_number = g

MaxLimit == 2

\* the first n elements of a sequence (SQL LIMIT n, n >= 1)
Limit(sq, n) == SubSeq(sq, 1, IF n < Len(sq) THEN n ELSE Len(sq))

\* main.py:253-272 : the rows of erg_un_index with that UN number by ascending
\* id, at most limit of them; 404 when there is none
erg_lookup_un(d, un_number, limit) ==
    LET found == Limit(SelectSeq(d.erg_un_index, LAMBDA r : r.un_number = un_number),
                       limit)
    IN  IF found = <<>> THEN [status |-> 404]
        ELSE [status |-> 200, un_number |-> un_number,
              matches |-> [i \in 1..Len(found) |->
                              [guide_number |-> found[i].guide_number,
                               material_name |-> found[i].material_name,
                               page_number |-> found[i].page_number]]]

\* the erg_guide_text row of that guide with the smallest id
erg_get_guide_oldest(d, guide_number) ==
    LET found == SelectSeq(d.erg_guide_text, LAMBDA r : r.guide_number = guide_number)
    IN  IF found = <<>> THEN [status |-> 404]
        ELSE [status |-> 200, guide_number |-> guide_number,
              page_numbers |-> found[1].page_numbers, content |-> found[1].content]

\* main.py:275-291 : the erg_guide_text row of that guide with the largest id
erg_get_guide(d, guide_number) ==
    LET found == SelectSeq(d.erg_guide_text, LAMBDA r : r.guide_number = guide_number)
    IN  IF found = <<>> THEN [status |-> 404]
        ELSE [status |-> 200, guide_number |-> guide_number,
              page_numbers |-> found[Len(found)].page_numbers,
              content |-> found[Len(found)].content]

\* the materials of a JSON whose guide the JSON defines, with that guide
MaterialsWithGuide(j) ==
    {mg \in Range(j.materials) \X Range(j.guides) : mg[2].number = mg[1].guide}

\* lookup-by-UN answers with a match of material m
MatchReturned(d, m, limit) ==
    LET r == erg_lookup_un(d, m.un, limit)
    IN  /\ r.status = 200
        /\ \E i \in 1..Len(r.matches) :
              r.matches[i].guide_number = m.guide /\ r.matches[i].material_name = m.name

\* lookup-by-guide answers with the block synthesized for guide g, which
\* holds its title
GuideReturned(d, g) ==
    LET r == erg_get_guide(d, g.number)
    IN  /\ r.status = 200
        /\ r.content = make_guide_text_content(g)
        /\ \E l \in 1..Len(r.content) : \E w \in 1..Len(r.content[l]) :
              r.content[l][w] = g.title

\* the number of erg_un_index rows of a UN number, over all generations
UnIndexRows(d, un_number) ==
    Len(SelectSeq(d.erg_un_index, LAMBDA r : r.un_number = un_number))

\* C11 as stated: after a seed that succeeds, for every material of the JSON
\* whose guide the JSON defines, lookup-by-UN (with any limit) returns a
\* match with the material's guide and name and lookup-by-guide returns the
\* synthesized block with the guide's title.
C11_AsStated ==
    [][\A j \in SeedJsons, force \in BOOLEAN, t \in Tags :
          (/\ last'.op = "seed" /\ last'.status = "seeded"
           /\ last'.version_tag = t /\ last'.force = force
           /\ seed_erg_from_json(j, force, t))
          => \A mg \in MaterialsWithGuide(j), limit \in 1..MaxLimit :
                MatchReturned(db', mg[1], limit) /\ GuideReturned(db', mg[2])]_vars

\* C11: the same, for a lookup whose limit is at least the number of
\* erg_un_index rows the store holds for that UN number.
C11_SeededLookup ==
    [][\A j \in SeedJsons, force \in BOOLEAN, t \in Tags :
          (/\ last'.op = "seed" /\ last'.status = "seeded"
           /\ last'.version_tag = t /\ last'.force = force
           /\ seed_erg_from_json(j, force, t))
          => \A mg \in MaterialsWithGuide(j), limit \in 1..MaxLimit :
                /\ limit >= UnIndexRows(db', mg[1].un) => MatchReturned(db', mg[1], limit)
                /\ GuideReturned(db', mg[2])]_vars

\* a seed has succeeded after an ingestion that left a row of UN 1203: the
\* lookup returns the older row first and the seeded match (no page) second
C11_Witness ==
    /\ last.op = "seed" /\ last.status = "seeded"
    /\ LET r == erg_lookup_un(db, "1203", MaxLimit)
       IN  /\ r.status = 200 /\ Len(r.matches) = 2
           /\ r.matches[1].page_number # NoPage
           /\ r.matches[2].page_number = NoPage /\ r.matches[2].guide_number = "128"
    /\ erg_get_guide(db, "128").status = 200
    /\ erg_get_guide(db, "128").page_numbers = <<>>

(***************************************************************************)
(* The canonical reference tables after a forced seed.                     *)
(***************************************************************************)
\* the canonical tables hold the rows derived from j and no other
CanonicalFrom(d, j) ==
    /\ d.erg_guides = seed_guides(j)
    /\ d.erg_materials = seed_materials(j)
    /\ d.erg_protective_distances = seed_distances(j)
    /\ d.erg_emergency_contacts = seed_contacts(j)

\* C12: after every seed_erg_from_json with force=true that completes, the
\* guides, materials, protective distances and emergency contacts are exactly
\* the rows derived from the JSON of that call.
C12_ForceClearsCanonical ==
    [][\A j \in SeedJsons, t \in Tags :
          (/\ last'.op = "seed" /\ last'.status = "seeded"
           /\ last'.version_tag = t /\ last'.force
           /\ seed_erg_from_json(j, TRUE, t))
          => CanonicalFrom(db', j)]_vars

(***************************************************************************)
(* Ingestion over every descriptor, the fatal ones included.               *)
(***************************************************************************)
NextDescriptor ==
    \E e \in Extractions \cup FatalDescriptors, force \in BOOLEAN :
        ingest_from_extraction(e, force)

SpecDescriptor == Init /\ [][NextDescriptor]_vars

\* C13: a call whose descriptor is missing, is not a list or is an empty list
\* ends fatally and leaves every table of the store, and the id sequence, as
\* they were, with force=true as well as without.
C13_FatalBeforeAnyWrite ==
    [][\A e \in FatalDescriptors, force \in BOOLEAN :
          (/\ last'.op = "ingest" /\ last'.version_tag = "" /\ last'.force = force
           /\ ingest_from_extraction(e, force))
          => (last'.status = "FATAL" /\ db' = db /\ seq' = seq)]_vars

\* a forced call has ended fatally on a store that holds a generation
C13_Witness ==
    /\ last.op = "ingest" /\ last.status = "FATAL" /\ last.force
    /\ db.erg_source_document # {} /\ db.erg_page # <<>>

\* C14: a descriptor with a page or table entry whose page number or table
\* number is no integer is still ingested to the end: every run on it that
\* is not skipped returns OK.
C14_MalformedRowSkipped ==
    [][\A e \in Extractions, force \in BOOLEAN :
          (/\ last'.op = "ingest" /\ last'.status # "SKIPPED" /\ last'.force = force
           /\ BadPageNumber(e) \/ BadTableNumber(e)
           /\ ingest_from_extraction(e, force))
          => last'.status = "OK"]_vars

(***************************************************************************)
(* The embedding pass over the chunks of one guide text                    *)
(* (erg_ingestion.py:367-385): one row per chunk, appended without a look  *)
(* at the hashes already collected.                                        *)
(***************************************************************************)
guide_chunk_rows(cs, sid, guide_number) ==
    [i \in 1..Len(cs) |->
        [source_document_id |-> sid, chunk_type |-> "guide_text",
         page_number |-> NoPage, guide_number |-> guide_number,
         un_or_na |-> "", content |-> cs[i]]]

\* C15: the rows the embedding pass collects for the chunks of a guide text
\* never hold two chunks with the same (source_document_id, content hash).
C15_OneChunkPerContentHash ==
    phase = "out"
    => Unique(guide_chunk_rows(chunks, 1, "128"), uq_erg_embedding_content)

(***************************************************************************)
(* The query endpoints over a store as a seed left it: the material lookup *)
(* of the reference API with its lookup log (erg_api.py), and the two      *)
(* free-text search endpoints (main.py, hazmat_erg_service.py) up to the   *)
(* choice of the backend; the ranking itself is the search machine above.  *)
(***************************************************************************)
MaxLog == 2
MaxQueryLen == 2

\* database.py:11 : the engine is built from DATABASE_URL, SQLite by default
EngineDialect(url) == IF url = "postgresql" THEN "postgresql" ELSE "sqlite"

\* un_number.upper().replace("UN", "")  (erg_api.py:81)
PathUnNumbers == {"1203", "un1203", "UN1005", "9999"}
UnOfPath ==
    ("1203" :> "1203") @@ ("un1203" :> "1203") @@ ("UN1005" :> "1005")
    @@ ("9999" :> "9999")

\* .filter(column == value).first() over the rows of a table
First(rws, Test(_)) ==
    LET found == SelectSeq(rws, Test) IN IF found = <<>> THEN <<>> ELSE <<found[1]>>

\* erg_api.py:21-44 with the exception of the write propagating to the caller
log_lookup_raising(log, entry, fails) ==
    IF fails THEN [log |-> log, raised |-> TRUE]
    ELSE [log |-> Append(log, entry), raised |-> FALSE]

\* erg_api.py:21-44 : add and commit the log row; on any exception roll the
\* session back and return normally
log_lookup(log, entry, fails) ==
    IF fails THEN [log |-> log, raised |-> FALSE]
    ELSE [log |-> Append(log, entry), raised |-> FALSE]

\* erg_api.py:79-143 : the answer and the log after GET /materials/{un_number};
\* fails says whether the commit of the log row raises.  The materials of the
\* seeds used here are not toxic-inhalation hazards, so no protective
\* distance is read (line 88).
get_material_result(d, log, un_number, fails) ==
    LET un == UnOfPath[un_number]
        material == First(d.erg_materials, LAMBDA r : r.un_number = un)
        guide == IF material = <<>> THEN <<>>
                 ELSE First(d.erg_guides,
                            LAMBDA r : r.guide_number = material[1].guide_number)
        logged == log_lookup(log,
                             [lookup_type |-> "material", search_query |-> un_number,
                              un_number |-> material[1].un_number,
                              guide_number |-> material[1].guide_number,
                              results_count |-> 1],
                             fails)
    IN  IF material = <<>>
        THEN [log |-> log, response |-> [status |-> 404]]
        ELSE IF logged.raised
        THEN [log |-> logged.log, response |-> [status |-> 500]]
        ELSE [log |-> logged.log,
              response |-> [status |-> 200, material |-> material[1], guide |-> guide]]

get_material(un_number, fails) ==
    /\ phase = "store"
    /\ Len(lookup_log) < MaxLog
    /\ \E r \in {get_material_result(db, lookup_log, un_number, fails)} :
          /\ response' = r.response
          /\ lookup_log' = r.log
    /\ request' = [endpoint |-> "get_material", un_number |-> un_number,
                   log_fails |-> fails]
    /\ UNCHANGED <<storeVars, chunkVars, embedVars, searchVars, database_url, pgvector,
                   analyticsVars, raceVars, loadVars, phase>>

\* the free-text queries: every string of up to MaxQueryLen letters and blanks
Queries == SeqUpTo({"a", " "}, MaxQueryLen)

\* a query the endpoints take for a query
BlankNever(q) == FALSE

\* not q or not q.strip()  (main.py:296, hazmat_erg_service.py:388)
Blank(q) == q = <<>> \/ Strip(q) = <<>>

\* the statement with <=> runs only on PostgreSQL with the vector extension
\* (erg_models.py:356 tries to create it and goes on without it)
NativeAvailable(url, pgv) == EngineDialect(url) = "postgresql" /\ pgv

\* main.py:294-434 up to the ranking: the 400 of line 297, the backend chosen
\* by os.getenv("DATABASE_URL", "") (299-300), the statement of 408-418
erg_search_result(url, pgv, q) ==
    IF Blank(q)
    THEN [status |-> 400, mode |-> "", embedded |-> FALSE, store_read |-> FALSE]
    ELSE IF url = "sqlite"
    THEN [status |-> 200, mode |-> "sqlite_vector", embedded |-> TRUE,
          store_read |-> TRUE]
    ELSE IF NativeAvailable(url, pgv)
    THEN [status |-> 200, mode |-> "pgvector_cosine", embedded |-> TRUE,
          store_read |-> TRUE]
    ELSE [status |-> 500, mode |-> "", embedded |-> TRUE, store_read |-> TRUE]

erg_search(q) ==
    /\ phase = "store"
    /\ request' = [endpoint |-> "erg_search", q |-> q]
    /\ response' = erg_search_result(database_url, pgvector, q)
    /\ UNCHANGED <<storeVars, chunkVars, embedVars, searchVars, database_url, pgvector,
                   lookup_log, analyticsVars, raceVars, loadVars, phase>>

\* hazmat_erg_service.py:386-393 with its session dependency (85-92, 57-61:
\* RuntimeError without a database URL, before the handler runs) and
\* _search_embeddings (177-295), whose exceptions the handler turns into 500
erg_semantic_search_result(url, pgv, q) ==
    IF url = "unset"
    THEN [status |-> 500, mode |-> "", embedded |-> FALSE, store_read |-> FALSE]
    ELSE IF Blank(q)
    THEN [status |-> 400, mode |-> "", embedded |-> FALSE, store_read |-> FALSE]
    ELSE IF url = "sqlite"
    THEN [status |-> 200, mode |-> "sqlite_vector", embedded |-> TRUE,
          store_read |-> TRUE]
    ELSE IF NativeAvailable(url, pgv)
    THEN [status |-> 200, mode |-> "pgvector_cosine", embedded |-> TRUE,
          store_read |-> TRUE]
    ELSE [status |-> 500, mode |-> "", embedded |-> TRUE, store_read |-> TRUE]

erg_semantic_search(q) ==
    /\ phase = "store"
    /\ request' = [endpoint |-> "erg_semantic_search", q |-> q]
    /\ response' = erg_semantic_search_result(database_url, pgvector, q)
    /\ UNCHANGED <<storeVars, chunkVars, embedVars, searchVars, database_url, pgvector,
                   lookup_log, analyticsVars, raceVars, loadVars, phase>>

\* the service on an empty store, with or without DATABASE_URL
InitQuery ==
    /\ database_url \in {"unset", "sqlite", "postgresql"}
    /\ pgvector \in BOOLEAN
    /\ pgvector => database_url = "postgresql"
    /\ dialect = EngineDialect(database_url)
    /\ build_embeddings = TRUE
    /\ db = EmptyDb /\ seq = 0 /\ last = NoCall /\ clean = TRUE
    /\ request = NoRequest /\ response = NoResponse /\ lookup_log = <<>>
    /\ phase = "store"
    /\ IdleChunk /\ IdleEmbed /\ IdleSearch /\ IdleAnalytics /\ IdleRuns /\ IdleLoads

\* main.py:225 seeds with the default version_tag; then the queries
NextQuery ==
    \/ \E j \in SeedJsons : seed_erg_from_json(j, FALSE, "ERG2024_JSON")
    \/ \E un_number \in PathUnNumbers, fails \in BOOLEAN : get_material(un_number, fails)
    \/ \E q \in Queries : erg_search(q)
    \/ \E q \in Queries : erg_semantic_search(q)

SpecQuery == InitQuery /\ [][NextQuery]_vars

\* C16: a free-text search of main.py on a store without the native vector
\* operator is answered by the fallback backend, not with an error.
C16_FallbackWhenNoNativeOperator ==
    (/\ request.endpoint = "erg_search"
     /\ ~Blank(request.q)
     /\ ~NativeAvailable(database_url, pgvector))
    => (response.status = 200 /\ response.mode = "sqlite_vector")

\* C17: whether or not the write of the lookup-log row fails, GET
\* /materials/{un_number} gives the answer it gives when the write succeeds;
\* a failed write leaves the log and the store as they were.
C17_LogFailureNeverFailsRead ==
    [][\A un_number \in PathUnNumbers, fails \in BOOLEAN :
          (/\ request'.endpoint = "get_material"
           /\ request'.un_number = un_number /\ request'.log_fails = fails
           /\ get_material(un_number, fails))
          => /\ response' = get_material_result(db, lookup_log, un_number, FALSE).response
             /\ db' = db
             /\ fails => lookup_log' = lookup_log]_vars

\* a material was found and returned although the write of its log row
\* failed, after an earlier lookup was logged
C17_Witness ==
    /\ request.endpoint = "get_material" /\ request.log_fails
    /\ response.status = 200 /\ response.material.un_number = "1203"
    /\ Len(lookup_log) = 1

\* the two search endpoints
SearchEndpoints == {"erg_search", "erg_semantic_search"}

\* the queries that are empty or consist only of whitespace
BlankQueries == {q \in Queries : \A i \in 1..Len(q) : q[i] = " "}

\* the answer to a rejected query: 400, nothing embedded, nothing read
Rejected == response.status = 400 /\ ~response.embedded /\ ~response.store_read

C19_NoDuplicateIdentity ==
    phase = "out"
    => \A i, j \in 1..Len(results) : Key(results[i]) = Key(results[j]) => i = j

\* two candidates had the identity of an anchor guide's text, which was
\* placed by the anchor step, and the fill step added further results
C19_Witness ==
    /\ phase = "out"
    /\ \E i, j \in 1..Len(rows) :
          /\ i < j /\ Key(rows[i]) = Key(rows[j])
          /\ rows[i].guide_number \in AnchorsWithGuideText
          /\ Key(rows[i]) \in Keys(results)
    /\ Len(results) >= 3

(***************************************************************************)
(* The ingest endpoint of the analytics router                             *)
(* (frontend/server/ai-sidecar/routers/analytics.py:128-169) on one DuckDB *)
(* connection.  The handler has no await: one request runs to its end      *)
(* before the next starts.  Every execute() is committed by itself, so a   *)
(* request that fails keeps what its earlier statements did.  tables maps  *)
(* the name of every existing table to its column types and its rows.      *)
(***************************************************************************)
MaxRows == 2
MaxTableRows == 3

\* a JSON value of a row: its Python type and its text
Value(kind, txt) == [kind |-> kind, text |-> txt]
IngestValues == {Value("int", "1"), Value("float", "1.5"), Value("str", "TX")}

\* test_analytics.py:161 : a table name that is not an identifier
TableNames == {"loads", "drop table;--"}
IsIdentifier(table_name) == table_name = "loads"

\* test_analytics.py:181 : the columns of the requests
IngestColumns == <<"id">>

\* a row of the request: one value, or no value at all
IngestRows == {<<>>} \cup {<<v>> : v \in IngestValues}

\* analytics.py:146-155 : the column type inferred from the first row's value
ColumnType(row, i) ==
    IF i > Len(row) THEN "VARCHAR"
    ELSE IF row[i].kind = "int" THEN "BIGINT"
    ELSE IF row[i].kind = "float" THEN "DOUBLE"
    ELSE "VARCHAR"

ColumnTypes(columns, row) == [i \in 1..Len(columns) |-> ColumnType(row, i)]

\* DuckDB's implicit cast of a bound parameter to the column type
CastError == Value("error", "")
Cast(type, v) ==
    IF type = "VARCHAR" THEN Value("str", v.text)
    ELSE IF v.kind = "str" THEN CastError
    ELSE IF type = "BIGINT"
    THEN (IF v.kind = "float" THEN Value("int", "2") ELSE v)
    ELSE (IF v.kind = "int" THEN Value("float", "1.0") ELSE v)

CastRow(types, row) == [i \in 1..Len(types) |-> Cast(types[i], row[i])]

\* the rows a table holds; none when it does not exist
TableRows(tbls, table_name) ==
    IF table_name \in DOMAIN tbls THEN tbls[table_name].rows ELSE <<>>

\* DROP TABLE IF EXISTS that does nothing
DropTableKeeps(tbls, table_name) == tbls

\* analytics.py:141 : DROP TABLE IF EXISTS
DropTable(tbls, table_name) ==
    [n \in (DOMAIN tbls) \ {table_name} |-> tbls[n]]

\* analytics.py:157 : CREATE TABLE IF NOT EXISTS
CreateTable(tbls, table_name, types) ==
    IF table_name \in DOMAIN tbls THEN tbls
    ELSE (table_name :> [types |-> types, rows |-> <<>>]) @@ tbls

\* analytics.py:160-162 : one INSERT with one placeholder per request column;
\* it raises when the row has another number of values, the table another
\* number of columns, or a value cannot be cast
InsertFails(table, columns, row) ==
    \/ Len(row) # Len(columns)
    \/ Len(table.types) # Len(columns)
    \/ CastError \in Range(CastRow(table.types, row))

\* analytics.py:161-162 : the rows from the i-th on, until one raises
RECURSIVE InsertRows(_, _, _, _, _)
InsertRows(tbls, table_name, columns, rws, i) ==
    IF i > Len(rws) THEN [tables |-> tbls, raised |-> FALSE]
    ELSE IF InsertFails(tbls[table_name], columns, rws[i])
    THEN [tables |-> tbls, raised |-> TRUE]
    ELSE InsertRows([tbls EXCEPT ![table_name].rows =
                         Append(@, CastRow(tbls[table_name].types, rws[i]))],
                    table_name, columns, rws, i + 1)

\* analytics.py:128-169
ingest_data_result(tbls, table_name, columns, rws, replace) ==
    IF ~IsIdentifier(table_name)
    THEN [tables |-> tbls,
          response |-> [status |-> 400, success |-> FALSE, rows_ingested |-> 0]]
    ELSE LET dropped == IF replace THEN DropTable(tbls, table_name) ELSE tbls
             done == IF rws = <<>> THEN [tables |-> dropped, raised |-> FALSE]
                     ELSE InsertRows(CreateTable(dropped, table_name,
                                                 ColumnTypes(columns, rws[1])),
                                     table_name, columns, rws, 1)
         IN  [tables |-> done.tables,
              response |-> IF done.raised
                           THEN [status |-> 200, success |-> FALSE, rows_ingested |-> 0]
                           ELSE [status |-> 200, success |-> TRUE,
                                 rows_ingested |-> Len(rws)]]

ingest_data(table_name, rws, replace) ==
    /\ phase = "store"
    /\ \E r \in {ingest_data_result(tables, table_name, IngestColumns, rws, replace)} :
          /\ Len(TableRows(r.tables, table_name)) <= MaxTableRows
          /\ tables' = r.tables
          /\ ingest_response' = r.response
    /\ request' = [endpoint |-> "ingest_data", table_name |-> table_name,
                   replace |-> replace,
                   rows_before |-> Len(TableRows(tables, table_name))]
    /\ UNCHANGED <<storeVars, chunkVars, embedVars, searchVars,
                   database_url, pgvector, response, lookup_log,
                   raceVars, loadVars, phase>>

\* a new in-memory DuckDB database (analytics.py:25)
InitAnalytics ==
    /\ tables = <<>> /\ ingest_response = NoIngestResponse
    /\ phase = "store"
    /\ IdleStore /\ IdleChunk /\ IdleEmbed /\ IdleSearch /\ IdleQuery
    /\ IdleRuns /\ IdleLoads

NextAnalytics ==
    \E table_name \in TableNames, rws \in SeqUpTo(IngestRows, MaxRows), replace \in BOOLEAN :
        ingest_data(table_name, rws, replace)

SpecAnalytics == InitAnalytics /\ [][NextAnalytics]_vars

\* C20: after a successful ingest with replace=true the table holds the rows
\* of that request, converted to the column types of its first row, and no
\* other row.
C20_ReplaceLeavesOnlyRequestRows ==
    [][\A rws \in SeqUpTo(IngestRows, MaxRows) :
          (/\ request'.endpoint = "ingest_data" /\ request'.replace
           /\ ingest_response'.success
           /\ ingest_response'.rows_ingested = Len(rws)
           /\ ingest_data(request'.table_name, rws, TRUE))
          => /\ Len(TableRows(tables', request'.table_name)) = Len(rws)
             /\ \A i \in 1..Len(rws) :
                    TableRows(tables', request'.table_name)[i]
                        = CastRow(ColumnTypes(IngestColumns, rws[1]), rws[i])]_vars

\* a successful replacing ingest of one row into a table that held two rows
C20_Witness ==
    /\ request.endpoint = "ingest_data" /\ request.replace
    /\ request.rows_before = 2
    /\ ingest_response.success /\ ingest_response.rows_ingested = 1
    /\ Len(TableRows(tables, request.table_name)) = 1

(***************************************************************************)
(* One ingestion run on an empty store, over descriptors that list pages   *)
(* inside and outside the page window, with and without guide headers, in  *)
(* every order, and a table whose cells name a guide outside 100-199.      *)
(***************************************************************************)
MaxGuidePages == 3

\* a page with the headers of guides 250, 131P and 128, in this order
OrangeTwoHeaders == << <<"GUIDE", "250">>, <<"GUIDE", "131P", "GUIDE", "128">> >>

GuidePageNumbers == {149, 150, 279, 280}
GuidePageChoices ==
    {[page |-> n, text |-> t] :
        n \in GuidePageNumbers, t \in {OrangeGuide128, OrangeTwoHeaders, OrangeContinued}}

\* a table with guide 250 in separate cells, in a cell collapsed with pipes
\* and in a cell collapsed into one line, and a page text with the same
Table250 ==
    << << <<"1203">>, <<"250">>, <<"GASOLINE">> >>,
       << <<"1005", "|", "250", "|", "AMMONIA">> >>,
       << <<"1203", "250", "FUEL">> >> >>
Yellow250 == << <<"1203", "250", "GASOLINE">>, <<"AMMONIA", "250", "1005">> >>

\* a descriptor with more pages, and more triples, than the largest batch
LongDescriptor ==
    [title |-> "ERG2024",
     pages |-> << [page |-> 20, text |-> << <<"1203", "128", "GASOLINE">> >>],
                  [page |-> 21, text |-> << <<"1203", "128", "FUEL">> >>],
                  [page |-> 22, text |-> << <<"1005", "131P", "AMMONIA">> >>],
                  [page |-> 23, text |-> << <<"1005", "128", "AMMONIA">> >>] >>,
     tables |-> <<>>]

GuideInputs ==
    {[title |-> "ERG2024", pages |-> ps, tables |-> ts] :
        ps \in SeqUpTo(GuidePageChoices, MaxGuidePages),
        ts \in {<<>>, << [page |-> 25, table_number |-> 1, data |-> TableGasoline] >>}}
    \cup
    {[title |-> "ERG2024", pages |-> ps,
      tables |-> << [page |-> 25, table_number |-> 1, data |-> Table250] >>] :
        ps \in {<<>>, << [page |-> 20, text |-> Yellow250] >>}}
    \cup {LongDescriptor}

\* the first run on the empty store
NextGuide == last = NoCall /\ \E e \in GuideInputs : ingest_from_extraction(e, FALSE)

SpecGuide == Init /\ [][NextGuide]_vars

InWindow(p) == 150 <= p.page /\ p.page < 280

\* the first valid guide header of a page, "" when it has none
Header(p) ==
    LET found == discover_guide_numbers_in_text(p.text)
    IN  IF found = <<>> THEN "" ELSE found[1]

\* the guide the claim attributes the i-th listed page to, "" for none
AttributedGuide(ps, i) ==
    IF ~InWindow(ps[i]) THEN ""
    ELSE IF Header(ps[i]) # "" THEN Header(ps[i])
    ELSE LET prev == {j \in 1..(i - 1) : InWindow(ps[j]) /\ Header(ps[j]) # ""}
         IN  IF prev = {} THEN ""
             ELSE Header(ps[CHOOSE j \in prev : \A n \in prev : n <= j])

\* the GuideText rows of generation sid for guide g
GuideTextRowsOf(d, sid, g) ==
    SelectSeq(d.erg_guide_text,
              LAMBDA r : r.source_document_id = sid /\ r.guide_number = g)

\* C21: after a completed run the pages of a guide's row are exactly the
\* listed pages that lie inside the window and either carry that guide as
\* their first valid header or carry no header and follow, among the pages
\* inside the window with a header, one whose first valid header is that
\* guide; no page number is in the rows of two guides.
C21_PageAttribution ==
    (last.op = "ingest" /\ last.status = "OK")
    => LET sid == last.source_document_id
           ps == StoredInput(db, sid).pages
       IN  /\ \A g \in DOMAIN GuideValue :
                  LET attributed == {ps[i].page : i \in {j \in 1..Len(ps) :
                                                     AttributedGuide(ps, j) = g}}
                      rs == GuideTextRowsOf(db, sid, g)
                  IN  IF attributed = {} THEN rs = <<>>
                      ELSE Len(rs) = 1 /\ Range(rs[1].page_numbers) = attributed
           /\ \A i \in 1..Len(ps) :
                  Cardinality({g \in DOMAIN GuideValue :
                      \E r \in Range(GuideTextRowsOf(db, sid, g)) :
                          ps[i].page \in Range(r.page_numbers)}) <= 1

\* a completed run over a header page, then a page outside the window, then
\* a page without header that was attributed to the header's guide
C21_Witness ==
    /\ last.op = "ingest" /\ last.status = "OK"
    /\ LET ps == StoredInput(db, last.source_document_id).pages
       IN  /\ Len(ps) = 3
           /\ Header(ps[1]) = "131P" /\ InWindow(ps[1])
           /\ ~InWindow(ps[2]) /\ Header(ps[2]) = "128"
           /\ InWindow(ps[3]) /\ Header(ps[3]) = ""
           /\ \E r \in Range(GuideTextRowsOf(db, last.source_document_id, "131P")) :
                  Range(r.page_numbers) = {ps[1].page, ps[3].page}

\* the listed pages with the given page numbers, by ascending page number
PagesAscending(ps, nums) ==
    [i \in 1..Len(nums) |-> (CHOOSE p \in Range(ps) : p.page = nums[i]).text]

\* C22: after a completed run the content of every GuideText row is the text
\* of the pages of its page_numbers, joined in ascending page-number order.
C22_ContentInPageOrder ==
    (last.op = "ingest" /\ last.status = "OK")
    => LET sid == last.source_document_id
           ps == StoredInput(db, sid).pages
       IN  \A r \in Range(db.erg_guide_text) :
               r.source_document_id = sid
               => r.content = JoinBlank(PagesAscending(ps, r.page_numbers))

\* C23: every stored UnIndexEntry has a guide number whose numeric part lies
\* in 100-199.
C23_StoredGuideInRange ==
    \A r \in Range(db.erg_un_index) :
        GuideValue[r.guide_number] >= 100 /\ GuideValue[r.guide_number] <= 199

\* the largest of the batch sizes of a run
LargestBatch == UnBatch

\* C24: no commit of a completed run carries more rows than the largest
\* batch size, however many rows the descriptor has.
C24_CommitsBounded ==
    (last.op = "ingest" /\ last.status = "OK")
    => LET sid == last.source_document_id
           e == [title |-> last.version_tag] @@ StoredInput(db, sid)
       IN  \A c \in Range(Stages(e, sid)) : Len(c.rows) <= LargestBatch

(***************************************************************************)
(* A run that stops after the commit of its source row: the process dies,  *)
(* or the connection is lost, after n of the commits that follow.  What    *)
(* was committed stays (erg_ingestion.py:208, 252, 281, 298, 317, 389).    *)
(***************************************************************************)
interrupted_result(d, e, force, n) ==
    LET existing == Existing(d, e.title)
        superseded == IF existing # NoDoc /\ force THEN existing ELSE NoDoc
        d0 == IF superseded # NoDoc THEN ForceDelete(d, superseded.id) ELSE d
        d1 == [d0 EXCEPT !.erg_source_document = @ \ {superseded}]
        sid == NewId(d1)
        ins == ReplaceSourceDocument(d0.erg_source_document, superseded, e.title, sid)
        d2 == [d1 EXCEPT !.erg_source_document = ins.docs]
    IN  IF SkipIngest(existing, force) \/ ins.raised \/ n >= Len(Stages(e, sid))
        THEN [started |-> FALSE]
        ELSE [started |-> TRUE, source_document_id |-> sid, existing_id |-> existing.id,
              run |-> CommitStages(d2, SubSeq(Stages(e, sid), 1, n), 1)]

ingest_interrupted(e, force, n) ==
    /\ phase = "store"
    /\ \E r \in {interrupted_result(db, e, force, n)} :
           /\ r.started /\ r.run.status = "OK"
           /\ r.source_document_id <= MaxId
           /\ db' = r.run.db
           /\ seq' = IF dialect = "postgresql" THEN seq + 1 ELSE seq
           /\ last' = [op |-> "ingest", version_tag |-> e.title,
                       force |-> force, status |-> "INTERRUPTED",
                       source_document_id |-> r.source_document_id,
                       existing_id |-> r.existing_id]
           /\ clean' = FALSE
    /\ UNCHANGED <<dialect, build_embeddings, chunkVars, embedVars, searchVars,
                 queryVars, analyticsVars, raceVars, loadVars, phase>>

\* the most commits a run of the descriptors makes after its source row
MaxCommits == 5

NextInterrupted ==
    \/ \E e \in Extractions, force \in BOOLEAN : ingest_from_extraction(e, force)
    \/ \E e \in Extractions, force \in BOOLEAN, n \in 0..(MaxCommits - 1) :
           ingest_interrupted(e, force, n)

SpecInterrupted == Init /\ [][NextInterrupted]_vars

\* the store holds a source document for the version_tag whose derived rows
\* are those of the first n commits of a descriptor, and not of all of them
PartialGeneration(d, version_tag) ==
    \E doc \in d.erg_source_document :
        /\ doc.version_tag = version_tag
        /\ \E e \in {x \in Extractions : x.title = version_tag} :
              LET rowsOf == [T \in DerivedTables |-> RowsOf(d, T, doc.id)]
                  after(n) == CommitStages([T \in DerivedTables |-> <<>>],
                                           SubSeq(Stages(e, doc.id), 1, n), 1).db
              IN  /\ rowsOf # after(Len(Stages(e, doc.id)))
                  /\ \E n \in 0..(Len(Stages(e, doc.id)) - 1) : rowsOf = after(n)

\* C25: on a store that holds a partial generation for a version_tag, an
\* ingestion of that version_tag with force=false returns SKIPPED and leaves
\* every table as it was.
C25_PartialGenerationSkipped ==
    [][(/\ last'.op = "ingest" /\ ~last'.force /\ last'.status # "INTERRUPTED"
        /\ PartialGeneration(db, last'.version_tag)
        /\ \E e \in Extractions :
               e.title = last'.version_tag /\ ingest_from_extraction(e, FALSE))
       => (last'.status = "SKIPPED" /\ db' = db)]_vars

\* a force=false run was skipped on a store whose generation for the tag has
\* pages but lacks its tables
C25_Witness ==
    /\ last.op = "ingest" /\ last.status = "SKIPPED"
    /\ PartialGeneration(db, last.version_tag)
    /\ db.erg_page # <<>> /\ db.erg_table = <<>>

(***************************************************************************)
(* Two requests ingesting the same descriptor with force=true at the same  *)
(* time (erg_ingestion.py:177-399).  Each request has a session of its     *)
(* own; a step of a worker is one of its commits, and the steps of the two *)
(* workers interleave freely: the code takes no lock and has no            *)
(* transaction around the whole run.                                       *)
(***************************************************************************)
RaceExtraction ==
    [title |-> "ERG2024",
     pages |-> << [page |-> 20, text |-> YellowGasoline],
                  [page |-> 160, text |-> OrangeGuide128] >>,
     tables |-> << [page |-> 25, table_number |-> 1, data |-> TableGasoline] >>]

\* the rows of the five derived tables that carry source_document_id sid
DerivedRowsOf(d, sid) ==
    {r \in Range(d.erg_page) \cup Range(d.erg_table) \cup Range(d.erg_un_index)
           \cup Range(d.erg_guide_text) \cup Range(d.erg_embedding_chunk) :
        r.source_document_id = sid}

\* a force-delete that leaves a generation alone while another worker is
\* still writing it
ForceDeleteUnlessWriting(d, rs, w) ==
    IF \E o \in Workers \ {w} : rs[o].pc = "write" /\ rs[o].sid = rs[w].found
    THEN d
    ELSE [ForceDelete(d, rs[w].found) EXCEPT
             !.erg_source_document = {x \in @ : x.id # rs[w].found}]

\* lines 191-198 : the derived rows of the document found at line 177 and the
\* document itself are deleted, whatever the other workers are doing
ForceDeleteGeneration(d, rs, w) ==
    [ForceDelete(d, rs[w].found) EXCEPT
        !.erg_source_document = {x \in @ : x.id # rs[w].found}]

\* lines 177-182 : the worker reads the newest document of the version_tag
race_lookup(w) ==
    /\ phase = "store"
    /\ runs[w].pc \in {"idle", "done", "failed"}
    /\ \E existing \in {Existing(db, RaceExtraction.title)} :
          runs' = [runs EXCEPT ![w] =
                      [pc |-> IF existing # NoDoc THEN "delete" ELSE "insert",
                       found |-> existing.id, sid |-> 0, committed |-> 0]]
    /\ UNCHANGED <<storeVars, chunkVars, embedVars, searchVars, queryVars,
                   analyticsVars, loadVars, phase>>

\* lines 191-198 : the force-delete and its commit
race_delete(w) ==
    /\ phase = "store"
    /\ runs[w].pc = "delete"
    /\ db' = ForceDeleteGeneration(db, runs, w)
    /\ runs' = [runs EXCEPT ![w].pc = "insert"]
    /\ UNCHANGED <<dialect, build_embeddings, seq, last, clean, chunkVars, embedVars,
                   searchVars, queryVars, analyticsVars, loadVars, phase>>

\* lines 200-209 : the new ErgSourceDocument and its commit; the insert raises
\* when the other worker's document of this version_tag is in the table
race_insert(w) ==
    /\ phase = "store"
    /\ runs[w].pc = "insert"
    /\ NewId(db) <= MaxId
    /\ \E ins \in {ReplaceSourceDocument(db.erg_source_document, NoDoc,
                                         RaceExtraction.title, NewId(db))} :
          IF ins.raised
          THEN /\ runs' = [runs EXCEPT ![w].pc = "failed"]
               /\ UNCHANGED <<db, seq>>
          ELSE /\ db' = [db EXCEPT !.erg_source_document = ins.docs]
               /\ seq' = IF dialect = "postgresql" THEN seq + 1 ELSE seq
               /\ runs' = [runs EXCEPT ![w].pc = "write", ![w].sid = NewId(db)]
    /\ UNCHANGED <<dialect, build_embeddings, last, clean, chunkVars, embedVars,
                   searchVars, queryVars, analyticsVars, loadVars, phase>>

\* lines 250-389 : the next commit of the worker's derived rows.  PostgreSQL
\* checks the foreign key to erg_source_document (erg_models.py:263), SQLite
\* does not.
race_commit(w) ==
    /\ phase = "store"
    /\ runs[w].pc = "write"
    /\ \E stages \in {Stages(RaceExtraction, runs[w].sid)} :
       \E c \in {stages[runs[w].committed + 1]} :
          IF \/ c.raises
             \/ ~UniqueRows(c.table, db[c.table] \o c.rows)
             \/ (dialect = "postgresql" /\ c.rows # <<>>
                 /\ runs[w].sid \notin DocIds(db))
          THEN /\ runs' = [runs EXCEPT ![w].pc = "failed"]
               /\ UNCHANGED db
          ELSE /\ db' = [db EXCEPT ![c.table] = @ \o c.rows]
               /\ runs' = [runs EXCEPT
                             ![w].committed = @ + 1,
                             ![w].pc = IF runs[w].committed + 1 = Len(stages)
                                       THEN "done" ELSE "write"]
    /\ UNCHANGED <<dialect, build_embeddings, seq, last, clean, chunkVars, embedVars,
                   searchVars, queryVars, analyticsVars, loadVars, phase>>

NextRace ==
    \E w \in Workers :
        \/ race_lookup(w)
        \/ race_delete(w)
        \/ race_insert(w)
        \/ race_commit(w)

SpecRace == Init /\ [][NextRace]_vars

\* C26: nothing serialises two force=true ingestions of one version_tag: the
\* force-delete of a worker removes the document the other worker has created
\* and is still writing derived rows for, and the other worker goes on
\* writing.
C26_ForceDeleteIgnoresWriter ==
    [][\A w \in Workers, o \in Workers :
          (/\ o # w
           /\ runs[w].pc = "delete" /\ runs'[w].pc = "insert"
           /\ runs[o].pc = "write" /\ runs[o].sid = runs[w].found)
          => (/\ runs[w].found \notin DocIds(db')
              /\ DerivedRowsOf(db', runs[w].found) = {}
              /\ runs'[o] = runs[o])]_vars

\* derived rows of a generation whose document a concurrent force-delete has
\* removed, written by a worker that is still running
C26_Witness ==
    \E w \in Workers, o \in Workers :
        /\ o # w
        /\ runs[o].pc = "write" /\ runs[o].committed >= 1
        /\ runs[w].pc = "insert" /\ runs[w].found = runs[o].sid
        /\ runs[o].sid \notin DocIds(db)
        /\ DerivedRowsOf(db, runs[o].sid) # {}

(***************************************************************************)
(* Anchors, boosts and ranking of the fallback search (main.py:342-360).   *)
(***************************************************************************)
\* a corpus with eight UN-index chunks: more than TopUnIndex of them at or
\* above the threshold, two with the same score, one below the threshold
AnchorCorpus ==
    << Candidate("un_index", "128", "1203", 20, "UN1203 GUIDE128 GASOLINE", 40),
       Candidate("un_index", "128", "1993", 21, "UN1993 GUIDE128 FUEL OIL", 30),
       Candidate("un_index", "131", "1005", 22, "UN1005 GUIDE131 AMMONIA", 25),
       Candidate("un_index", "124", "1017", 23, "UN1017 GUIDE124 CHLORINE", 22),
       Candidate("un_index", "127", "1170", 24, "UN1170 GUIDE127 ETHANOL", 18),
       Candidate("un_index", "130", "1090", 25, "UN1090 GUIDE130 ACETONE", 18),
       Candidate("un_index", "129", "1230", 26, "UN1230 GUIDE129 METHANOL", 16),
       Candidate("un_index", "126", "1950", 27, "UN1950 GUIDE126 AEROSOLS", 10),
       Candidate("guide_text", "128", "", NoPage, "GUIDE 128 FLAMMABLE LIQUIDS", 5),
       Candidate("guide_text", "129", "", NoPage, "GUIDE 129 FLAMMABLE LIQUIDS", 8),
       Candidate("guide_text", "126", "", NoPage, "GUIDE 126 GASES", 1),
       Candidate("guide_text", "111", "", NoPage, "GUIDE 111 MIXED LOAD", 90) >>

AnchorSelections ==
    {[j \in 1..Cardinality(S) |-> AnchorCorpus[SortedSeq(S)[j]]] :
        S \in SUBSET (1..Len(AnchorCorpus))}

InitAnchor ==
    /\ rows \in AnchorSelections
    /\ k \in -1..MaxK
    /\ results = <<>>
    /\ phase = "in"
    /\ IdleStore /\ IdleChunk /\ IdleEmbed /\ IdleQuery /\ IdleAnalytics
    /\ IdleRuns /\ IdleLoads

SpecAnchor == InitAnchor /\ [][Search]_vars

\* the UN-index candidates with one of the TopUnIndex highest raw scores
\* (equal scores in candidate order) and a raw score at or above the threshold
TopScoringUnIndex ==
    {i \in 1..Len(rows) :
        /\ rows[i].chunk_type = "un_index"
        /\ rows[i].score >= AnchorThreshold
        /\ Cardinality({j \in 1..Len(rows) :
                           /\ rows[j].chunk_type = "un_index"
                           /\ \/ rows[j].score > rows[i].score
                              \/ (rows[j].score = rows[i].score /\ j < i)})
              < TopUnIndex}

StatedAnchors == {rows[i].guide_number : i \in TopScoringUnIndex}

\* the score the stated rule gives candidate c
StatedScore(c) ==
    IF c.chunk_type = "guide_text" /\ c.guide_number \in StatedAnchors
    THEN c.score + GuideTextBoost
    ELSE IF c.chunk_type = "un_index" /\ c.guide_number \in StatedAnchors
    THEN c.score + UnIndexBoost
    ELSE c.score

\* the number of guide_text entries placed first (one per anchor guide that
\* has guide text)
PlacedFirst ==
    Cardinality({g \in StatedAnchors :
        \E i \in 1..Len(rows) : rows[i].chunk_type = "guide_text"
                                /\ rows[i].guide_number = g})

C29_AtMostKResults ==
    phase = "out" => Len(results) <= (IF k > 0 THEN k ELSE 0)

\* the last n characters of s (all of s when it has no more than n)
LastChars(s, n) ==
    IF n <= 0 THEN <<>>
    ELSE IF Len(s) <= n THEN s
    ELSE SubSeq(s, Len(s) - n + 1, Len(s))

\* C28: every chunk after the first (a buffer opened by an overflow) starts
\* with the last `overlap` characters of the chunk emitted before it, up to
\* the leading whitespace str.strip() removes, whatever the length of that
\* chunk.
C28_NextBufferStartsWithTail ==
    phase = "out"
    => \A i \in 2..Len(chunks) :
           StartsWith(chunks[i], LStrip(LastChars(chunks[i-1], overlap)))

(***************************************************************************)
(* The load lifecycle (main.py:71-105, crud.py:24-42).  loads[i] is the    *)
(* status of the Load row with id i; load_response is the last call with   *)
(* its HTTP status.                                                        *)
(***************************************************************************)
MaxLoads == 2

Statuses == {"Pre-Loading", "Loading", "In-Transit", "Delivered", "Delayed", "Cancelled"}

\* a table that lets a load in transit be cancelled
valid_transitions_cancel_in_transit(current_status) ==
    IF current_status = "Pre-Loading" THEN {"Loading", "Cancelled"}
    ELSE IF current_status = "Loading" THEN {"In-Transit", "Cancelled"}
    ELSE IF current_status = "In-Transit" THEN {"Delivered", "Delayed", "Cancelled"}
    ELSE IF current_status = "Delayed" THEN {"In-Transit", "Delivered"}
    ELSE {}

\* main.py:89-95, 100 : valid_transitions.get(current_status, [])
valid_transitions(current_status) ==
    IF current_status = "Pre-Loading" THEN {"Loading", "Cancelled"}
    ELSE IF current_status = "Loading" THEN {"In-Transit", "Cancelled"}
    ELSE IF current_status = "In-Transit" THEN {"Delivered", "Delayed"}
    ELSE IF current_status = "Delivered" THEN {}
    ELSE IF current_status = "Delayed" THEN {"In-Transit", "Delivered"}
    ELSE {}

\* main.py:71-73 with crud.py:28-33 : the status of the request, or
\* "Pre-Loading" when it is None or empty
create_new_load(status) ==
    /\ phase = "store"
    /\ Len(loads) < MaxLoads
    /\ loads' = Append(loads, IF status = "" THEN "Pre-Loading" ELSE status)
    /\ load_response' = [op |-> "create", load_id |-> Len(loads) + 1,
                         new_status |-> status, status |-> 200]
    /\ UNCHANGED <<storeVars, chunkVars, embedVars, searchVars, queryVars,
                   analyticsVars, raceVars, phase>>

\* main.py:82-103 with crud.py:35-42
update_load_status(load_id, new_status) ==
    /\ phase = "store"
    /\ IF load_id \notin DOMAIN loads
       THEN /\ load_response' = [op |-> "update", load_id |-> load_id,
                                 new_status |-> new_status, status |-> 404]
            /\ UNCHANGED loads
       ELSE IF new_status \notin valid_transitions(loads[load_id])
       THEN /\ load_response' = [op |-> "update", load_id |-> load_id,
                                 new_status |-> new_status, status |-> 400]
            /\ UNCHANGED loads
       ELSE /\ loads' = [loads EXCEPT ![load_id] = new_status]
            /\ load_response' = [op |-> "update", load_id |-> load_id,
                                 new_status |-> new_status, status |-> 200]
    /\ UNCHANGED <<storeVars, chunkVars, embedVars, searchVars, queryVars,
                   analyticsVars, raceVars, phase>>

\* the statuses a request can carry: the six of the lifecycle, one outside it
RequestStatuses == Statuses \cup {"Archived"}

NextLoads ==
    \/ \E status \in RequestStatuses \cup {""} : create_new_load(status)
    \/ \E load_id \in 1..(MaxLoads + 1), new_status \in RequestStatuses :
           update_load_status(load_id, new_status)

SpecLoads == Init /\ [][NextLoads]_vars

\* the transition table as stated
StatedTransitions ==
    {<<"Pre-Loading", "Loading">>, <<"Pre-Loading", "Cancelled">>,
     <<"Loading", "In-Transit">>, <<"Loading", "Cancelled">>,
     <<"In-Transit", "Delivered">>, <<"In-Transit", "Delayed">>,
     <<"Delayed", "In-Transit">>, <<"Delayed", "Delivered">>}

\* C30: an update changes a load's status only along the stated table; any
\* other requested transition of an existing load is answered 400 and leaves
\* every status as it was; a Delivered or Cancelled load keeps its status; a
\* load that is In-Transit, Delayed or Delivered never becomes Cancelled,
\* Loading or Pre-Loading.
C30_StatusFollowsTable ==
    [][/\ \A i \in DOMAIN loads :
            /\ loads'[i] # loads[i] => <<loads[i], loads'[i]>> \in StatedTransitions
            /\ loads[i] \in {"Delivered", "Cancelled"} => loads'[i] = loads[i]
            /\ loads[i] \in {"In-Transit", "Delayed", "Delivered"}
               => loads'[i] \notin {"Cancelled", "Loading", "Pre-Loading"}
       /\ (load_response'.op = "update" /\ load_response'.load_id \in DOMAIN loads)
          => IF <<loads[load_response'.load_id], load_response'.new_status>>
                    \in StatedTransitions
             THEN /\ load_response'.status = 200
                  /\ loads'[load_response'.load_id] = load_response'.new_status
             ELSE /\ load_response'.status = 400
                  /\ loads' = loads]_vars

\* a rejected request to cancel a load that is in transit, while another load
\* has been delivered
C30_Witness ==
    /\ load_response.op = "update" /\ load_response.status = 400
    /\ load_response.load_id \in DOMAIN loads
    /\ loads[load_response.load_id] = "In-Transit"
    /\ load_response.new_status = "Cancelled"
    /\ \E i \in DOMAIN loads : loads[i] = "Delivered"
====
